---- MODULE Spec2Model ----
(***************************************************************************)
(* A model of serde-flattened: the path codec (Segment, FieldPath), the    *)
(* flatten engine (flattened_iter, flattened) and the unflatten engine     *)
(* (unflatten_iter, ValueBuilder::apply, unflattened).                     *)
(*                                                                         *)
(* Spec runs flattened and unflattened on bounded values, in both builds   *)
(* of serde_json::Map; SpecCodec runs the codec on bounded segments and    *)
(* paths; SpecDecode runs FlattenedMapDeserializer and FlatMapDeserializer *)
(* on bounded records and target types; SpecSorted runs                    *)
(* FlatMapDeserializer::deserialize_seq on '.'-separated keys; SpecWriter  *)
(* runs NestedCsvWriter::serialize and write_nested_csv on bounded         *)
(* sequences of items; SpecReader runs the iterator of                     *)
(* NestedCsvReader::deserialize on bounded records.                        *)
(*                                                                         *)
(* Text is a sequence of one-character strings, so that splitting on the   *)
(* separator, stripping the index prefix and parsing a decimal are         *)
(* computed character by character, as the code computes them.             *)
(***************************************************************************)
EXTENDS Integers, Sequences, FiniteSets

VARIABLES
    preserve_order, \* build feature of serde_json: Map keeps insertion order (TRUE) or is sorted by key (FALSE)
    input,          \* the serde_json::Value handed to the library
    pc,             \* "start", "flattened", "folding", "done"
    src,            \* what unflattened was called on: "none", "input", "flat"
    flat,           \* the Map returned by flattened(input)
    pending,        \* entries unflatten_iter has not yielded yet
    consumed,       \* number of entries the fold has pulled from the iterator
    out,            \* the Value under construction in unflattened
    result,         \* what unflattened returned: None, Ok(value), Err(error), Panic(message)
    seg,            \* codec: the Segment given to to_string
    tok,            \* codec: the token to_string returned
    dec,            \* codec: the Segment from_str decoded from tok
    path,           \* codec: the FieldPath given to the join
    joined,         \* codec: the joined text of path
    back,           \* codec: the FieldPath obtained by splitting joined
    data,           \* decoder: the IndexMap<String, String> borrowed by the deserializer
    de_prefix,      \* decoder: FlattenedMapDeserializer.prefix
    shape,          \* decoder: the target type that drives the Deserializer calls
    indices,        \* decoder: SeqAccessor.indices, the indices not yet visited
    fields,         \* decoder: MapAccessor.fields, the fields not yet visited
    current_field,  \* decoder: MapAccessor.current_field
    visited,        \* decoder: what the accessor handed to the visitor so far
    decoded,        \* decoder: what the deserialize call returned
    headers,        \* writer: NestedCsvWriter.headers
    count,          \* writer: NestedCsvWriter.count
    written,        \* writer: the records handed to csv::Writer::write_record
    served,         \* writer: the items serialize was called with; reader: the items its input was written from
    ret,            \* writer: what the last serialize call returned
    batch_items,    \* writer: the items write_nested_csv has not reached yet
    total,          \* writer: what write_nested_csv returned
    flexible,       \* reader: the csv::Reader takes records of any length
    target,         \* reader: the type T of NestedCsvReader<R, T>
    reader_headers, \* reader: NestedCsvReader.headers
    reader_count,   \* reader: NestedCsvReader.count
    input_rows,     \* reader: the data records the csv::Reader has not read yet
    yielded         \* reader: the items the iterator of deserialize has yielded

vars == <<preserve_order, input, pc, src, flat, pending, consumed, out, result,
          seg, tok, dec, path, joined, back,
          data, de_prefix, shape, indices, fields, current_field, visited, decoded,
          headers, count, written, served, ret, batch_items, total,
          flexible, target, reader_headers, reader_count, input_rows, yielded>>

treeVars == <<preserve_order, input, src, flat, pending, consumed, out, result>>
codecVars == <<seg, tok, dec, path, joined, back>>
decoderVars == <<data, de_prefix, shape, indices, fields, current_field, visited, decoded>>
writerVars == <<headers, count, written, served, ret, batch_items, total>>
readerVars == <<flexible, target, reader_headers, reader_count, input_rows, yielded>>

-----------------------------------------------------------------------------
(* Bounds of the model.                                                    *)

\* Longest array among the enumerated trees.
MaxArrLen == 2
\* Length of the long arrays, chosen above Radix so that "idx-10" occurs.
LongArrLen == 11
\* Largest number of entries of an enumerated flat map.
MaxPairs == 3
\* Stand-in for usize::MAX: a decimal above it overflows in parse::<usize>.
UsizeMax == 15
\* Longest FieldPath given to join/split.
MaxPathLen == 3
\* Longest text following the prefix of an enumerated token.
MaxBodyLen == 3

\* Base of the decimal text of an index (Display for usize).
Radix == 10

-----------------------------------------------------------------------------
(* Text.                                                                   *)

ARR_PFX == <<"i", "d", "x", "-">>
JOIN_TAG == <<"_", "_">>

Digits == <<"0", "1", "2", "3", "4", "5", "6", "7", "8", "9">>

IsDigit(c) == \E d \in 1..Len(Digits) : Digits[d] = c

DigitVal(c) == (CHOOSE d \in 1..Len(Digits) : Digits[d] = c) - 1

\* Byte value of a character, for the ordering of String keys (Ord for str).
CharCode(c) ==
    CASE c = "+" -> 43
      [] c = "-" -> 45
      [] c = "." -> 46
      [] IsDigit(c) -> 48 + DigitVal(c)
      [] c = "_" -> 95
      [] c = "a" -> 97
      [] c = "b" -> 98
      [] c = "d" -> 100
      [] c = "i" -> 105
      [] c = "k" -> 107
      [] c = "x" -> 120

RECURSIVE StrLess(_, _)
\* a < b for Strings: bytewise lexicographic.
StrLess(a, b) ==
    IF b = <<>> THEN FALSE
    ELSE IF a = <<>> THEN TRUE
    ELSE IF Head(a) = Head(b) THEN StrLess(Tail(a), Tail(b))
    ELSE CharCode(Head(a)) < CharCode(Head(b))

StartsWith(s, p) == Len(s) >= Len(p) /\ SubSeq(s, 1, Len(p)) = p

RECURSIVE Decimal(_)
\* Display for usize: the decimal text of n, no sign, no leading zero.
Decimal(n) ==
    IF n < Radix THEN <<Digits[n + 1]>>
    ELSE Decimal(n \div Radix) \o <<Digits[(n % Radix) + 1]>>

None == [tag |-> "None"]
Some(x) == [tag |-> "Some", some |-> x]

RECURSIVE AccumulateDigits(_, _)
\* The digit loop of parse::<usize>: None on a non-digit or on overflow.
AccumulateDigits(acc, s) ==
    IF s = <<>> THEN Some(acc)
    ELSE IF ~IsDigit(Head(s)) THEN None
    ELSE LET next == acc * Radix + DigitVal(Head(s))
         IN  IF next > UsizeMax THEN None ELSE AccumulateDigits(next, Tail(s))

\* str::parse::<usize>().ok(): an optional leading '+', then one or more digits.
parse_usize(s) ==
    IF s = <<>> THEN None
    ELSE IF s = <<"+">> \/ s = <<"-">> THEN None
    ELSE IF Head(s) = "+" THEN AccumulateDigits(0, Tail(s))
    ELSE AccumulateDigits(0, s)

-----------------------------------------------------------------------------
(* Segment and FieldPath.                                                  *)

Idx(n) == [seg |-> "Idx", idx |-> n]
Field(s) == [seg |-> "Field", field |-> s]

\* Mutant of to_string: the index prefix is left out.
to_string_no_prefix(s) ==
    IF s.seg = "Idx" THEN Decimal(s.idx) ELSE s.field

\* impl ToString for Segment
to_string(s) ==
    IF s.seg = "Idx" THEN ARR_PFX \o Decimal(s.idx) ELSE s.field

\* Mutant of from_str: the token is parsed with its prefix still on, so
\* that no token decodes as an index.
from_str_never_index(t) ==
    LET parsed == parse_usize(t)
    IN  IF parsed.tag = "Some" THEN Idx(parsed.some) ELSE Field(t)

\* Segment::from_str
from_str(t) ==
    LET parsed == IF StartsWith(t, ARR_PFX)
                  THEN parse_usize(SubSeq(t, Len(ARR_PFX) + 1, Len(t)))
                  ELSE None
    IN  IF parsed.tag = "Some" THEN Idx(parsed.some) ELSE Field(t)

RECURSIVE JoinTokens(_)
\* Itertools::join(JOIN_TAG) over the tokens of a path.
JoinTokens(ts) ==
    IF ts = <<>> THEN <<>>
    ELSE IF Len(ts) = 1 THEN ts[1]
    ELSE ts[1] \o JOIN_TAG \o JoinTokens(Tail(ts))

\* Mutant of JoinPath: the separator also precedes the first token.
JoinPath_leading_sep(p) ==
    JOIN_TAG \o JoinTokens([i \in 1..Len(p) |-> to_string(p[i])])

\* The key flattened builds from a FieldPath.
JoinPath(p) == JoinTokens([i \in 1..Len(p) |-> to_string(p[i])])

RECURSIVE SplitAt(_, _)
\* str::split(JOIN_TAG): the pieces between the matches of the separator,
\* found left to right without overlap; s is the text not yet scanned,
\* piece the text of the current piece.
SplitAt(piece, s) ==
    IF StartsWith(s, JOIN_TAG)
    THEN <<piece>> \o SplitAt(<<>>, SubSeq(s, Len(JOIN_TAG) + 1, Len(s)))
    ELSE IF s = <<>> THEN <<piece>>
    ELSE SplitAt(Append(piece, Head(s)), Tail(s))

\* key.split(JOIN_TAG).map(Segment::from_str).collect() in unflatten_iter
SplitPath(key) ==
    LET pieces == SplitAt(<<>>, key)
    IN  [i \in 1..Len(pieces) |-> from_str(pieces[i])]

-----------------------------------------------------------------------------
(* serde_json::Value and serde_json::Map.                                  *)

\* Each kind of Value has its own payload field.
Null == [kind |-> "null"]
Bool(b) == [kind |-> "bool", bool |-> b]
Num(n) == [kind |-> "number", num |-> n]
Str(s) == [kind |-> "string", str |-> s]
Arr(s) == [kind |-> "array", arr |-> s]
\* An object holds its entries [k, v] in the iteration order of the Map.
Obj(m) == [kind |-> "object", map |-> m]

Entry(k, v) == [k |-> k, v |-> v]

IsScalar(v) == v.kind \in {"null", "bool", "number", "string"}

HasKey(m, k) == \E i \in 1..Len(m) : m[i].k = k

KeyIndex(m, k) == CHOOSE i \in 1..Len(m) : m[i].k = k

\* A new entry put at its place in a map sorted by key (BTreeMap).
SortedInsert(m, k, v) ==
    LET r == Cardinality({i \in 1..Len(m) : StrLess(m[i].k, k)})
    IN  SubSeq(m, 1, r) \o <<Entry(k, v)>> \o SubSeq(m, r + 1, Len(m))

\* Map::insert: an existing key keeps its place and takes the new value; a
\* new key goes last (insertion order) or to its sorted place.
MapInsert(m, k, v) ==
    IF HasKey(m, k) THEN [m EXCEPT ![KeyIndex(m, k)].v = v]
    ELSE IF preserve_order THEN Append(m, Entry(k, v))
    ELSE SortedInsert(m, k, v)

RECURSIVE MapCollect(_, _)
\* FromIterator for Map: insert the pairs one after the other.
MapCollect(m, pairs) ==
    IF pairs = <<>> THEN m
    ELSE MapCollect(MapInsert(m, pairs[1].k, pairs[1].v), Tail(pairs))

RECURSIVE ValueEq(_, _)
\* PartialEq for Value: arrays by position, objects by key.
ValueEq(a, b) ==
    IF a.kind # b.kind THEN FALSE
    ELSE IF a.kind = "array"
    THEN /\ Len(a.arr) = Len(b.arr)
         /\ \A i \in 1..Len(a.arr) : ValueEq(a.arr[i], b.arr[i])
    ELSE IF a.kind = "object"
    THEN /\ Len(a.map) = Len(b.map)
         /\ \A i \in 1..Len(a.map) :
               /\ HasKey(b.map, a.map[i].k)
               /\ ValueEq(a.map[i].v, b.map[KeyIndex(b.map, a.map[i].k)].v)
    ELSE a = b

-----------------------------------------------------------------------------
(* Flatten engine.                                                         *)

RECURSIVE Concat(_)
Concat(ss) == IF ss = <<>> THEN <<>> ELSE Head(ss) \o Concat(Tail(ss))

RECURSIVE flattened_iter(_, _)
\* Mutant of flattened_iter: an empty array or object is emitted as a Null
\* leaf.
flattened_iter_keeps_empty(prefix, value) ==
    IF value.kind = "array" /\ value.arr # <<>>
    THEN Concat([i \in 1..Len(value.arr) |->
                    flattened_iter(Append(prefix, Idx(i - 1)), value.arr[i])])
    ELSE IF value.kind = "object" /\ value.map # <<>>
    THEN Concat([i \in 1..Len(value.map) |->
                    flattened_iter(Append(prefix, Field(value.map[i].k)), value.map[i].v)])
    ELSE IF IsScalar(value) THEN <<[path |-> prefix, value |-> value]>>
    ELSE <<[path |-> prefix, value |-> Null]>>

\* Mutant of flattened_iter: the Array arm is missing, so that an array is
\* emitted as it is, like a scalar.
flattened_iter_array_as_leaf(prefix, value) ==
    IF value.kind = "object"
    THEN Concat([i \in 1..Len(value.map) |->
                    flattened_iter(Append(prefix, Field(value.map[i].k)), value.map[i].v)])
    ELSE <<[path |-> prefix, value |-> value]>>

\* The (FieldPath, Value) pairs of the depth-first walk, in order.
flattened_iter(prefix, value) ==
    IF value.kind = "array"
    THEN Concat([i \in 1..Len(value.arr) |->
                    flattened_iter(Append(prefix, Idx(i - 1)), value.arr[i])])
    ELSE IF value.kind = "object"
    THEN Concat([i \in 1..Len(value.map) |->
                    flattened_iter(Append(prefix, Field(value.map[i].k)), value.map[i].v)])
    ELSE <<[path |-> prefix, value |-> value]>>

\* flattened: join every path into a key and collect the pairs into a Map.
flattened(value) ==
    LET pairs == flattened_iter(<<>>, value)
    IN  MapCollect(<<>>, [i \in 1..Len(pairs) |->
                            Entry(JoinPath(pairs[i].path), pairs[i].value)])

-----------------------------------------------------------------------------
(* Unflatten engine.                                                       *)

Ok(v) == [tag |-> "Ok", value |-> v]
Err(e) == [tag |-> "Err", error |-> e]
Panic(m) == [tag |-> "Panic", message |-> m]
NoResult == [tag |-> "None"]

\* The variants of unflatten::Error.
UnsupportedTopLevelValue(name) == [err |-> "UnsupportedTopLevelValue", found |-> name]
UnsupportedChildValue(key) == [err |-> "UnsupportedChildValue", key |-> key]
Other(msg) == [err |-> "Other", msg |-> msg]

\* The name unflatten_iter reports for a top-level value that is no object.
TopLevelName(v) ==
    CASE v.kind = "null" -> "Value::Null "
      [] v.kind = "bool" -> "Value::Bool"
      [] v.kind = "number" -> "Value::Number"
      [] v.kind = "string" -> "Value::String"
      [] v.kind = "array" -> "Value::Array"
      [] v.kind = "object" -> "Value::Object"

\* Mutant of unflatten_iter: a Null top level is taken for an empty map.
unflatten_iter_null_as_empty(value) ==
    IF value.kind = "object"
    THEN [i \in 1..Len(value.map) |->
            IF IsScalar(value.map[i].v)
            THEN Ok([path |-> SplitPath(value.map[i].k), value |-> value.map[i].v])
            ELSE Err(UnsupportedChildValue(value.map[i].k))]
    ELSE IF value.kind = "null" THEN <<>>
    ELSE <<Err(UnsupportedTopLevelValue(TopLevelName(value)))>>

\* Mutant of unflatten_iter: the value of an entry is not looked at.
unflatten_iter_any_child(value) ==
    IF value.kind = "object"
    THEN [i \in 1..Len(value.map) |->
            Ok([path |-> SplitPath(value.map[i].k), value |-> value.map[i].v])]
    ELSE <<Err(UnsupportedTopLevelValue(TopLevelName(value)))>>

\* unflatten_iter: the items the iterator yields, in order. A top level
\* that is no object yields the one error; an object yields, per entry, the
\* decoded path with its scalar, or the error naming the key of a composite.
unflatten_iter(value) ==
    IF value.kind = "object"
    THEN [i \in 1..Len(value.map) |->
            IF IsScalar(value.map[i].v)
            THEN Ok([path |-> SplitPath(value.map[i].k), value |-> value.map[i].v])
            ELSE Err(UnsupportedChildValue(value.map[i].k))]
    ELSE <<Err(UnsupportedTopLevelValue(TopLevelName(value)))>>

\* ValueBuilder::make_array
make_array(node) ==
    CASE node.kind = "array" -> [ok |-> TRUE, msg |-> "", node |-> node]
      [] node.kind = "null" -> [ok |-> TRUE, msg |-> "", node |-> Arr(<<>>)]
      [] node.kind = "bool" ->
            [ok |-> FALSE, msg |-> "found bool, expected array or null", node |-> node]
      [] node.kind = "number" ->
            [ok |-> FALSE, msg |-> "found number, expected array or null", node |-> node]
      [] node.kind = "string" ->
            [ok |-> FALSE, msg |-> "found string, expected array or null", node |-> node]
      [] node.kind = "object" ->
            [ok |-> FALSE, msg |-> "found object, expected array or null", node |-> node]

\* ValueBuilder::make_object
make_object(node) ==
    CASE node.kind = "object" -> [ok |-> TRUE, msg |-> "", node |-> node]
      [] node.kind = "null" -> [ok |-> TRUE, msg |-> "", node |-> Obj(<<>>)]
      [] node.kind = "bool" ->
            [ok |-> FALSE, msg |-> "found bool, expected object or null", node |-> node]
      [] node.kind = "number" ->
            [ok |-> FALSE, msg |-> "found number, expected object or null", node |-> node]
      [] node.kind = "string" ->
            [ok |-> FALSE, msg |-> "found string, expected object or null", node |-> node]
      [] node.kind = "array" ->
            [ok |-> FALSE, msg |-> "found array, expected object or null", node |-> node]

\* ArrayBuilder::get_or_create: a slot inside the bounds is kept, the slot
\* at the current length is appended as Null, and Vec::insert panics on an
\* index beyond the length.
ArrayBuilder_get_or_create(arr, index) ==
    IF index < Len(arr) THEN [panic |-> FALSE, arr |-> arr]
    ELSE IF index = Len(arr) THEN [panic |-> FALSE, arr |-> Append(arr, Null)]
    ELSE [panic |-> TRUE, arr |-> arr]

\* ObjectBuilder::get_or_create: a missing key is inserted with Null.
ObjectBuilder_get_or_create(map, key) ==
    IF HasKey(map, key) THEN map ELSE MapInsert(map, key, Null)

RECURSIVE apply(_, _, _)
\* Mutant of ValueBuilder::apply: at the end of the path a container that
\* is already there is kept.
apply_keeps_container(node, p, value) ==
    IF p = <<>>
    THEN [st |-> "ok", msg |-> "", node |-> IF IsScalar(node) THEN value ELSE node]
    ELSE
      LET current == Head(p)
          rest == Tail(p)
      IN
      IF current.seg = "Idx"
      THEN LET made == make_array(node)
           IN  IF ~made.ok THEN [st |-> "err", msg |-> made.msg, node |-> node]
               ELSE LET got == ArrayBuilder_get_or_create(made.node.arr, current.idx)
                    IN  IF got.panic
                        THEN [st |-> "panic",
                              msg |-> "insertion index should be <= len",
                              node |-> made.node]
                        ELSE LET r == apply(got.arr[current.idx + 1], rest, value)
                             IN  [st |-> r.st, msg |-> r.msg,
                                  node |-> Arr([got.arr EXCEPT ![current.idx + 1] = r.node])]
      ELSE LET made == make_object(node)
           IN  IF ~made.ok THEN [st |-> "err", msg |-> made.msg, node |-> node]
               ELSE LET map == ObjectBuilder_get_or_create(made.node.map, current.field)
                        at == KeyIndex(map, current.field)
                        r == apply(map[at].v, rest, value)
                    IN  [st |-> r.st, msg |-> r.msg,
                         node |-> Obj([map EXCEPT ![at].v = r.node])]

\* ValueBuilder::apply: st is "ok", "err" (with the message) or "panic";
\* node is the node as the call leaves it.
apply(node, p, value) ==
    IF p = <<>> THEN [st |-> "ok", msg |-> "", node |-> value]
    ELSE
      LET current == Head(p)
          rest == Tail(p)
      IN
      IF current.seg = "Idx"
      THEN LET made == make_array(node)
           IN  IF ~made.ok THEN [st |-> "err", msg |-> made.msg, node |-> node]
               ELSE LET got == ArrayBuilder_get_or_create(made.node.arr, current.idx)
                    IN  IF got.panic
                        THEN [st |-> "panic",
                              msg |-> "insertion index should be <= len",
                              node |-> made.node]
                        ELSE LET r == apply(got.arr[current.idx + 1], rest, value)
                             IN  [st |-> r.st, msg |-> r.msg,
                                  node |-> Arr([got.arr EXCEPT ![current.idx + 1] = r.node])]
      ELSE LET made == make_object(node)
           IN  IF ~made.ok THEN [st |-> "err", msg |-> made.msg, node |-> node]
               ELSE LET map == ObjectBuilder_get_or_create(made.node.map, current.field)
                        at == KeyIndex(map, current.field)
                        r == apply(map[at].v, rest, value)
                    IN  [st |-> r.st, msg |-> r.msg,
                         node |-> Obj([map EXCEPT ![at].v = r.node])]

-----------------------------------------------------------------------------
(* The values the model hands to the library.                              *)

SeqsUpTo(S, n) == UNION {[1..m -> S] : m \in 1..n}

sA == <<"a">>
sB == <<"b">>
sK == <<"k">>
sX == <<"x">>

\* Field names: plain ones, one ending in '_', one holding the separator,
\* two that read as index tokens, and the empty name.
Names ==
    {sA, sB, <<"a", "_">>, <<"a", "_", "_", "b">>,
     ARR_PFX \o <<"0">>, ARR_PFX \o <<"+", "0">>, <<>>}

Scalars == {Null, Bool(TRUE), Num(1), Str(sX)}

Level0 == Scalars \cup {Arr(<<>>), Obj(<<>>)}

Level1 ==
    Level0
    \cup {Arr(s) : s \in SeqsUpTo({Null, Num(1), Str(sX), Arr(<<>>)}, MaxArrLen)}
    \cup {Obj(<<Entry(n, v)>>) : n \in Names, v \in Level0}

Level1Few ==
    {Num(1), Str(sX), Arr(<<>>), Arr(<<Num(1)>>),
     Obj(<<Entry(sB, Num(1))>>), Obj(<<Entry(sA, Str(sX))>>)}

\* The elements of a long array alternate, so that a reordering shows.
LongArr(n) == Arr([i \in 1..n |-> IF i % 2 = 0 THEN Num(1) ELSE Str(sX)])

Trees ==
    Level1
    \cup {Obj(<<Entry(n, v)>>) : n \in Names, v \in Level1}
    \cup {Obj(<<Entry(ns[1], v1), Entry(ns[2], v2)>>) :
             ns \in {p \in Names \X Names : p[1] # p[2]},
             v1 \in Level1Few, v2 \in Level1Few}
    \cup {Arr(s) : s \in SeqsUpTo(Level1Few, MaxArrLen)}
    \cup {Obj(<<Entry(sA, Arr(s))>>) :
             s \in SeqsUpTo({Num(1), Arr(<<Str(sX)>>), Obj(<<Entry(sB, Num(1))>>)}, MaxArrLen)}
    \cup {LongArr(n) : n \in {Radix, LongArrLen}}
    \cup {Obj(<<Entry(sA, LongArr(n))>>) : n \in {Radix, LongArrLen}}

\* Keys of the flat maps given to unflattened directly.
FlatKeys ==
    {sA,
     sA \o JOIN_TAG \o ARR_PFX \o <<"0">>,
     sA \o JOIN_TAG \o ARR_PFX \o <<"1">>,
     sA \o JOIN_TAG \o sK,
     ARR_PFX \o <<"0">>,
     sK}

FlatVals == {Null, Str(sX), Arr(<<>>)}

FlatMaps ==
    {Obj(m) : m \in {s \in SeqsUpTo([k : FlatKeys, v : FlatVals], MaxPairs) :
                       \A i, j \in 1..Len(s) : i # j => s[i].k # s[j].k}}

Inputs == Trees \cup FlatMaps

RECURSIVE SortValue(_)
RECURSIVE SortEntries(_, _)
\* The same value as the build with sorted maps holds it.
SortEntries(m, es) ==
    IF es = <<>> THEN m
    ELSE SortEntries(SortedInsert(m, es[1].k, SortValue(es[1].v)), Tail(es))

SortValue(v) ==
    IF v.kind = "array" THEN Arr([i \in 1..Len(v.arr) |-> SortValue(v.arr[i])])
    ELSE IF v.kind = "object" THEN Obj(SortEntries(<<>>, v.map))
    ELSE v

-----------------------------------------------------------------------------
(* The flatten / unflatten state machine.                                  *)

NoSegment == [seg |-> "None"]

NoShape == [ty |-> "none"]

DecoderIdle ==
    /\ data = <<>>
    /\ de_prefix = <<>>
    /\ shape = NoShape
    /\ indices = <<>>
    /\ fields = <<>>
    /\ current_field = None
    /\ visited = <<>>
    /\ decoded = NoResult

ReaderIdle ==
    /\ flexible = FALSE
    /\ target = NoShape
    /\ reader_headers = <<>>
    /\ reader_count = 0
    /\ input_rows = <<>>
    /\ yielded = <<>>

WriterIdle ==
    /\ headers = None
    /\ count = 0
    /\ written = <<>>
    /\ served = <<>>
    /\ ret = NoResult
    /\ batch_items = <<>>
    /\ total = NoResult

CodecIdle ==
    /\ seg = NoSegment
    /\ tok = <<>>
    /\ dec = NoSegment
    /\ path = <<>>
    /\ joined = <<>>
    /\ back = <<>>

Init ==
    /\ preserve_order \in BOOLEAN
    /\ \E v \in Inputs : input = IF preserve_order THEN v ELSE SortValue(v)
    /\ pc = "start"
    /\ src = "none"
    /\ flat = <<>>
    /\ pending = <<>>
    /\ consumed = 0
    /\ out = Null
    /\ result = NoResult
    /\ CodecIdle
    /\ DecoderIdle
    /\ WriterIdle
    /\ ReaderIdle

\* flattened(input)
Flattened ==
    /\ pc = "start"
    /\ flat' = flattened(input)
    /\ pc' = "flattened"
    /\ UNCHANGED <<preserve_order, input, src, pending, consumed, out, result>>
    /\ UNCHANGED codecVars
    /\ UNCHANGED decoderVars
    /\ UNCHANGED writerVars
    /\ UNCHANGED readerVars

\* The call of unflattened(value): out starts as Null and the fold is
\* about to pull the first item of unflatten_iter(value).
UnflattenedCall(from, value) ==
    /\ src' = from
    /\ out' = Null
    /\ consumed' = 0
    /\ pending' = unflatten_iter(value)
    /\ pc' = "folding"
    /\ result' = NoResult
    /\ UNCHANGED <<preserve_order, input, flat>>
    /\ UNCHANGED codecVars
    /\ UNCHANGED decoderVars
    /\ UNCHANGED writerVars
    /\ UNCHANGED readerVars

\* unflattened(input)
UnflattenedInput ==
    /\ pc = "start"
    /\ UnflattenedCall("input", input)

\* unflattened(Value::from(flattened(input))), as in test_example_1
UnflattenedFlat ==
    /\ pc = "flattened"
    /\ UnflattenedCall("flat", Obj(flat))

\* One step of the try_fold in unflattened: an error item ends the fold
\* with that error; a pair is applied to out, and an error of apply ends
\* the fold as Error::Other. A panic of apply unwinds out of unflattened.
FoldStep ==
    /\ pc = "folding"
    /\ pending # <<>>
    /\ LET next == Head(pending)
       IN  /\ pending' = Tail(pending)
           /\ consumed' = consumed + 1
           /\ IF next.tag = "Err"
              THEN /\ out' = out
                   /\ result' = next
                   /\ pc' = "done"
              ELSE LET r == apply(out, next.value.path, next.value.value)
                   IN  /\ out' = r.node
                       /\ result' = CASE r.st = "ok" -> NoResult
                                       [] r.st = "err" -> Err(Other(r.msg))
                                       [] r.st = "panic" -> Panic(r.msg)
                       /\ pc' = IF r.st = "ok" THEN "folding" ELSE "done"
    /\ UNCHANGED <<preserve_order, input, src, flat>>
    /\ UNCHANGED codecVars
    /\ UNCHANGED decoderVars
    /\ UNCHANGED writerVars
    /\ UNCHANGED readerVars

\* The iterator is exhausted: unflattened returns Ok(out).
FoldEnd ==
    /\ pc = "folding"
    /\ pending = <<>>
    /\ result' = Ok(out)
    /\ pc' = "done"
    /\ UNCHANGED <<preserve_order, input, src, flat, pending, consumed, out>>
    /\ UNCHANGED codecVars
    /\ UNCHANGED decoderVars
    /\ UNCHANGED writerVars
    /\ UNCHANGED readerVars

Next ==
    \/ Flattened
    \/ UnflattenedInput
    \/ UnflattenedFlat
    \/ FoldStep
    \/ FoldEnd

Spec == Init /\ [][Next]_vars

-----------------------------------------------------------------------------
(* The path codec on its own: a Segment is encoded and decoded again, a    *)
(* FieldPath is joined and split again.                                    *)

SeqsFrom0(S, n) == {<<>>} \cup SeqsUpTo(S, n)

\* Tokens: nothing, the index prefix, the prefix cut short, or a letter,
\* followed by digits, signs, '_' and letters.
Tokens ==
    {pre \o body :
        pre \in {<<>>, ARR_PFX, <<"i", "d", "x">>, sA},
        body \in SeqsFrom0({"0", "1", "9", "+", "-", "_", "a"}, MaxBodyLen)}

Segments == {Idx(n) : n \in 0..UsizeMax} \cup {Field(t) : t \in Tokens}

SegmentPool ==
    {Idx(0), Idx(1), Idx(Radix),
     Field(sA), Field(<<"a", "_">>), Field(<<"_", "b">>), Field(<<"a", "_", "_", "b">>),
     Field(ARR_PFX \o <<"0">>), Field(ARR_PFX \o <<"+", "0">>), Field(<<>>)}

Paths == SeqsFrom0(SegmentPool, MaxPathLen)

TreeIdle ==
    /\ preserve_order = TRUE
    /\ input = Null
    /\ src = "none"
    /\ flat = <<>>
    /\ pending = <<>>
    /\ consumed = 0
    /\ out = Null
    /\ result = NoResult

InitCodec ==
    /\ TreeIdle
    /\ pc \in {"segment", "path"}
    /\ IF pc = "segment"
       THEN seg \in Segments /\ path = <<>>
       ELSE seg = NoSegment /\ path \in Paths
    /\ tok = <<>>
    /\ dec = NoSegment
    /\ joined = <<>>
    /\ back = <<>>
    /\ DecoderIdle
    /\ WriterIdle
    /\ ReaderIdle

\* seg.to_string()
EncodeSegment ==
    /\ pc = "segment"
    /\ tok' = to_string(seg)
    /\ pc' = "encoded"
    /\ UNCHANGED <<seg, dec, path, joined, back>>
    /\ UNCHANGED treeVars
    /\ UNCHANGED decoderVars
    /\ UNCHANGED writerVars
    /\ UNCHANGED readerVars

\* Segment::from_str(tok)
DecodeToken ==
    /\ pc = "encoded"
    /\ dec' = from_str(tok)
    /\ pc' = "decoded"
    /\ UNCHANGED <<seg, tok, path, joined, back>>
    /\ UNCHANGED treeVars
    /\ UNCHANGED decoderVars
    /\ UNCHANGED writerVars
    /\ UNCHANGED readerVars

\* The key flattened makes of path.
JoinKey ==
    /\ pc = "path"
    /\ joined' = JoinPath(path)
    /\ pc' = "joined"
    /\ UNCHANGED <<seg, tok, dec, path, back>>
    /\ UNCHANGED treeVars
    /\ UNCHANGED decoderVars
    /\ UNCHANGED writerVars
    /\ UNCHANGED readerVars

\* The FieldPath unflatten_iter makes of the key.
SplitKey ==
    /\ pc = "joined"
    /\ back' = SplitPath(joined)
    /\ pc' = "split"
    /\ UNCHANGED <<seg, tok, dec, path, joined>>
    /\ UNCHANGED treeVars
    /\ UNCHANGED decoderVars
    /\ UNCHANGED writerVars
    /\ UNCHANGED readerVars

NextCodec ==
    \/ EncodeSegment
    \/ DecodeToken
    \/ JoinKey
    \/ SplitKey

SpecCodec == InitCodec /\ [][NextCodec]_vars

-----------------------------------------------------------------------------
(* The tree as the claims speak of it: positions, leaves and their keys.   *)

Arity(v) ==
    IF v.kind = "array" THEN Len(v.arr)
    ELSE IF v.kind = "object" THEN Len(v.map)
    ELSE 0

Child(v, i) == IF v.kind = "array" THEN v.arr[i] ELSE v.map[i].v

\* The token of the step to child i: the field name, or "idx-" and the
\* decimal position counted from zero.
TokenOf(v, i) ==
    IF v.kind = "array" THEN <<"i", "d", "x", "-">> \o Decimal(i - 1) ELSE v.map[i].k

RECURSIVE Positions(_)
\* Every node of the tree, as the sequence of child numbers leading to it.
Positions(v) ==
    {<<>>} \cup UNION {{<<i>> \o p : p \in Positions(Child(v, i))} : i \in 1..Arity(v)}

RECURSIVE NodeAt(_, _)
NodeAt(v, pos) == IF pos = <<>> THEN v ELSE NodeAt(Child(v, pos[1]), Tail(pos))

RECURSIVE KeyAt(_, _)
\* The tokens from the root to the node, joined with "__".
KeyAt(v, pos) ==
    IF pos = <<>> THEN <<>>
    ELSE IF Len(pos) = 1 THEN TokenOf(v, pos[1])
    ELSE TokenOf(v, pos[1]) \o <<"_", "_">> \o KeyAt(Child(v, pos[1]), Tail(pos))

LeafPositions(v) == {pos \in Positions(v) : IsScalar(NodeAt(v, pos))}

EmptyContainerPositions(v) ==
    {pos \in Positions(v) : ~IsScalar(NodeAt(v, pos)) /\ Arity(NodeAt(v, pos)) = 0}

RECURSIVE PosLess(_, _)
\* Depth-first order of two positions.
PosLess(p, q) ==
    IF p = <<>> THEN q # <<>>
    ELSE IF q = <<>> THEN FALSE
    ELSE IF p[1] = q[1] THEN PosLess(Tail(p), Tail(q))
    ELSE p[1] < q[1]

HasSeparator(s) == \E i \in 1..(Len(s) - 1) : s[i] = "_" /\ s[i + 1] = "_"

FlatDone == pc # "start" /\ src # "input"

\* The value unflattened was called on.
Arg == IF src = "input" THEN input ELSE Obj(flat)

Returned == src # "none" /\ pc = "done"

IsErr(r, name) == r.tag = "Err" /\ r.error.err = name

EndsWithUnderscore(s) == Len(s) >= 1 /\ s[Len(s)] = "_"

-----------------------------------------------------------------------------
(* Claims about the flatten engine.                                        *)

\* C2 (as stated): for every object tree, flattened(t) holds exactly one
\* entry per scalar leaf, keyed by the leaf's joined tokens and carrying the
\* leaf's scalar, and no other entry.
C2_OneEntryPerLeaf ==
    (FlatDone /\ input.kind = "object") =>
        /\ Len(flat) = Cardinality(LeafPositions(input))
        /\ \A pos \in LeafPositions(input) :
              \E i \in 1..Len(flat) :
                  flat[i].k = KeyAt(input, pos) /\ flat[i].v = NodeAt(input, pos)
        /\ \A i \in 1..Len(flat) :
              \E pos \in LeafPositions(input) :
                  flat[i].k = KeyAt(input, pos) /\ flat[i].v = NodeAt(input, pos)

\* C2 (amended): for every object tree, flattened(t) holds exactly one
\* entry per distinct joined key of a scalar leaf; its value is the scalar
\* of the last leaf, in depth-first order, that has this key; there are no
\* other entries. When no two leaves share a key, that is one entry per leaf.
C2_OneEntryPerLeafKey ==
    (FlatDone /\ input.kind = "object") =>
        /\ \A i, j \in 1..Len(flat) : flat[i].k = flat[j].k => i = j
        /\ \A pos \in LeafPositions(input) :
              \E i \in 1..Len(flat) : flat[i].k = KeyAt(input, pos)
        /\ \A i \in 1..Len(flat) :
              \E pos \in LeafPositions(input) :
                  /\ flat[i].k = KeyAt(input, pos)
                  /\ flat[i].v = NodeAt(input, pos)
                  /\ \A later \in LeafPositions(input) :
                        PosLess(pos, later) => KeyAt(input, later) # flat[i].k
        /\ (\A p, q \in LeafPositions(input) : KeyAt(input, p) = KeyAt(input, q) => p = q)
              => Len(flat) = Cardinality(LeafPositions(input))

\* Witness of C2: an object with nested leaves was flattened, and two of
\* its leaves share a joined key.
C2_Witness ==
    /\ FlatDone
    /\ input.kind = "object"
    /\ \E pos \in LeafPositions(input) : Len(pos) >= 2
    /\ Len(flat) < Cardinality(LeafPositions(input))

\* C3: for every object whose values are all scalars, flattened(o) holds
\* the entries of o, unchanged and in the same order.
C3_FlatObjectIdentity ==
    (/\ FlatDone
     /\ input.kind = "object"
     /\ \A i \in 1..Len(input.map) : IsScalar(input.map[i].v))
        => flat = input.map

\* Witness of C3: a flat object of several entries, one of whose keys
\* holds the separator, was flattened.
C3_Witness ==
    /\ FlatDone
    /\ input.kind = "object"
    /\ Len(input.map) >= 2
    /\ \A i \in 1..Len(input.map) : IsScalar(input.map[i].v)
    /\ \E i \in 1..Len(input.map) : HasSeparator(input.map[i].k)

\* C4: every value of the map flattened returns is a scalar, and an empty
\* array or object contributes no entry: every entry is keyed by a scalar
\* leaf, there are at most as many entries as scalar leaves, and a tree
\* without scalar leaves flattens to the empty map.
C4_OnlyScalarLeaves ==
    FlatDone =>
        /\ \A i \in 1..Len(flat) : IsScalar(flat[i].v)
        /\ \A i \in 1..Len(flat) :
              \E pos \in LeafPositions(input) : flat[i].k = KeyAt(input, pos)
        /\ Len(flat) <= Cardinality(LeafPositions(input))
        /\ Len(flattened_iter(<<>>, input)) = Cardinality(LeafPositions(input))

\* Witness of C4: a tree holding an empty container beside a scalar leaf
\* was flattened.
C4_Witness ==
    /\ FlatDone
    /\ EmptyContainerPositions(input) # {}
    /\ LeafPositions(input) # {}
    /\ Len(flat) >= 1

-----------------------------------------------------------------------------
(* Claims about the unflatten engine.                                      *)

\* The field names of a tree, each with the node it names.
FieldPositions(v) ==
    {pos \in Positions(v) :
        pos # <<>> /\ NodeAt(v, SubSeq(pos, 1, Len(pos) - 1)).kind = "object"}

FieldNameAt(v, pos) ==
    NodeAt(v, SubSeq(pos, 1, Len(pos) - 1)).map[pos[Len(pos)]].k

\* Every field name is one the codec can carry: it decodes as a field, it
\* holds no separator, and it does not end in '_' where a separator follows
\* it (the field holds a container).
NamesCarried(v) ==
    \A pos \in FieldPositions(v) :
        LET name == FieldNameAt(v, pos)
        IN  /\ from_str(name).seg = "Field"
            /\ ~HasSeparator(name)
            /\ ~IsScalar(NodeAt(v, pos)) => ~EndsWithUnderscore(name)

\* No array is so long that the sorted order of its keys differs from the
\* order of its indices ("idx-10" sorts before "idx-2").
ArraysInKeyOrder(v) ==
    \A pos \in Positions(v) :
        NodeAt(v, pos).kind = "array" => Len(NodeAt(v, pos).arr) <= Radix

RoundTripped == src = "flat" /\ pc = "done"

\* C1 (as stated): for every tree whose leaves are all scalars and which
\* holds no empty array or object, unflattened(flattened(t)) succeeds and
\* equals t.
C1_RoundTrip ==
    (RoundTripped /\ EmptyContainerPositions(input) = {}) =>
        (result.tag = "Ok" /\ ValueEq(result.value, input))

\* C1 (amended): unflattened(flattened(t)) succeeds and equals t for every
\* tree that is an array or an object at the top, has only scalar leaves
\* and no empty container, whose field names decode as fields, hold no
\* "__" and do not end in '_' where they name a container, and, when the
\* Map is sorted by key, whose arrays hold at most ten elements.
C1_RoundTripOfCarriedTrees ==
    (/\ RoundTripped
     /\ EmptyContainerPositions(input) = {}
     /\ ~IsScalar(input)
     /\ NamesCarried(input)
     /\ preserve_order \/ ArraysInKeyOrder(input))
        => (result.tag = "Ok" /\ ValueEq(result.value, input))

\* Witness of C1: an object holding an array of several elements came back
\* from the round trip.
C1_Witness ==
    /\ RoundTripped
    /\ EmptyContainerPositions(input) = {}
    /\ NamesCarried(input)
    /\ preserve_order \/ ArraysInKeyOrder(input)
    /\ input.kind = "object"
    /\ \E pos \in Positions(input) :
          /\ pos # <<>>
          /\ NodeAt(input, pos).kind = "array"
          /\ Len(NodeAt(input, pos).arr) >= 2
    /\ result.tag = "Ok"

\* Two entries of the map disagree on a prefix: after the same leading
\* segments the one goes on with an index, the other with a field.
KindConflict(m) ==
    \E i, j \in 1..Len(m) :
        LET p == SplitPath(m[i].k)
            q == SplitPath(m[j].k)
        IN  \E n \in 0..(Len(p) - 1) :
                /\ n < Len(q)
                /\ SubSeq(p, 1, n) = SubSeq(q, 1, n)
                /\ p[n + 1].seg = "Idx"
                /\ q[n + 1].seg = "Field"

\* C7: unflattened returns an error whenever one pair of the input needs a
\* prefix to be an array and another pair needs the same prefix to be an
\* object, whichever of the two comes first.
C7_KindConflictIsError ==
    (Returned /\ Arg.kind = "object" /\ KindConflict(Arg.map)) => result.tag = "Err"

RECURSIVE IndexBeyondLength(_, _)
\* Walking path p from node meets an index greater than the length of the
\* array it addresses (a Null node stands for an array still empty).
IndexBeyondLength(node, p) ==
    IF p = <<>> THEN FALSE
    ELSE IF p[1].seg = "Idx"
    THEN IF node.kind \notin {"array", "null"} THEN FALSE
         ELSE LET len == IF node.kind = "array" THEN Len(node.arr) ELSE 0
              IN  IF p[1].idx > len THEN TRUE
                  ELSE IF p[1].idx = len THEN IndexBeyondLength(Null, Tail(p))
                  ELSE IndexBeyondLength(node.arr[p[1].idx + 1], Tail(p))
    ELSE IF node.kind \notin {"object", "null"} THEN FALSE
         ELSE IF node.kind = "object" /\ HasKey(node.map, p[1].field)
         THEN IndexBeyondLength(node.map[KeyIndex(node.map, p[1].field)].v, Tail(p))
         ELSE IndexBeyondLength(Null, Tail(p))

\* C8: a pair whose path holds an index greater than the current length of
\* the array it addresses makes unflattened return an error to the caller.
C8_IndexBeyondLengthIsError ==
    [][(/\ pc = "folding"
        /\ pending # <<>>
        /\ Head(pending).tag = "Ok"
        /\ IndexBeyondLength(out, Head(pending).value.path))
          => result'.tag = "Err"]_vars

\* C9: unflattened returns UnsupportedTopLevelValue for every value that is
\* no object at the top level, before anything is built, and for no object.
C9_TopLevelMustBeObject ==
    /\ Returned => (IsErr(result, "UnsupportedTopLevelValue") <=> Arg.kind # "object")
    /\ (src # "none" /\ Arg.kind # "object") =>
          /\ out = Null
          /\ pc = "folding" =>
                (consumed = 0 /\ Len(pending) = 1
                 /\ IsErr(pending[1], "UnsupportedTopLevelValue"))

\* Witness of C9: unflattened was called on an array and returned the
\* error.
C9_Witness ==
    /\ Returned
    /\ Arg.kind = "array"
    /\ IsErr(result, "UnsupportedTopLevelValue")

\* C10: when the fold reaches an entry whose value is an array or an
\* object, no earlier pair having failed, unflattened returns
\* UnsupportedChildValue with the key of that entry; no entry with a
\* composite value is applied to the tree, and none is passed over.
C10_CompositeChildIsError ==
    (src # "none" /\ Arg.kind = "object") =>
        /\ \A i \in 1..consumed :
              ~IsScalar(Arg.map[i].v) =>
                  /\ i = consumed
                  /\ pc = "done"
                  /\ result = Err(UnsupportedChildValue(Arg.map[i].k))
        /\ result.tag = "Ok" => \A i \in 1..Len(Arg.map) : IsScalar(Arg.map[i].v)

\* Witness of C10: the second entry of the map is composite, the first
\* was applied, and the error names the key of the second.
C10_Witness ==
    /\ Returned
    /\ Arg.kind = "object"
    /\ consumed = 2
    /\ ~IsScalar(Arg.map[2].v)
    /\ out # Null
    /\ result = Err(UnsupportedChildValue(Arg.map[2].k))

-----------------------------------------------------------------------------
(* Claims about the path codec.                                            *)

AllDigits(s) == s # <<>> /\ \A i \in 1..Len(s) : IsDigit(s[i])

RECURSIVE NumberOf(_)
\* The number a text of decimal digits denotes.
NumberOf(s) ==
    IF s = <<>> THEN 0 ELSE NumberOf(SubSeq(s, 1, Len(s) - 1)) * 10 + DigitVal(s[Len(s)])

AfterPrefix(t) == SubSeq(t, 5, Len(t))

\* "idx-" followed only by decimal digits.
IsIndexText(t) ==
    /\ Len(t) > 4
    /\ SubSeq(t, 1, 4) = <<"i", "d", "x", "-">>
    /\ AllDigits(AfterPrefix(t))

\* C5: Segment::from_str decodes a token as Idx(n) exactly when the token
\* is "idx-" followed only by decimal digits whose value n fits the index
\* type, and every other token as Field(token); so an Idx comes back from
\* its text, and so does every Field whose name is not "idx-" and digits.
C5_FromStrDecodesIndexTextOnly ==
    pc = "decoded" =>
        /\ IF IsIndexText(tok) /\ NumberOf(AfterPrefix(tok)) <= UsizeMax
           THEN dec = Idx(NumberOf(AfterPrefix(tok)))
           ELSE dec = Field(tok)
        /\ seg.seg = "Idx" => dec = seg
        /\ (seg.seg = "Field" /\ ~IsIndexText(seg.field)) => dec = seg

\* C6 (as stated): for every FieldPath, the empty one included, whose field
\* names hold no "__" and are not index tokens, splitting the joined text
\* and decoding each token gives the path again.
C6_SplitInvertsJoin ==
    (/\ pc = "split"
     /\ \A i \in 1..Len(path) :
           path[i].seg = "Field" =>
               (~HasSeparator(path[i].field) /\ ~IsIndexText(path[i].field)))
        => back = path

\* C6 (amended): for every FieldPath of at least one segment whose field
\* names hold no "__", are not decoded as an index by Segment::from_str
\* and, but for the last segment, do not end in '_', splitting the joined
\* text and decoding each token gives the path again.
C6_SplitInvertsJoinOfCarriedPaths ==
    (/\ pc = "split"
     /\ path # <<>>
     /\ \A i \in 1..Len(path) :
           path[i].seg = "Field" =>
               /\ ~HasSeparator(path[i].field)
               /\ from_str(path[i].field).seg = "Field"
               /\ i < Len(path) => ~EndsWithUnderscore(path[i].field))
        => back = path

\* Witness of C6: a path of an index, a field and a field that begins
\* with '_' came back from the split.
C6_Witness ==
    /\ pc = "split"
    /\ Len(path) = 3
    /\ path[1].seg = "Idx"
    /\ path[2] = Field(<<"a">>)
    /\ path[3] = Field(<<"_", "b">>)
    /\ back = path

-----------------------------------------------------------------------------
(* FlattenedMapDeserializer: the flat record of raw text and its lookups.  *)

sTrue == <<"t", "r", "u", "e">>
sFalse == <<"f", "a", "l", "s", "e">>

\* serde::de::Error values of the decoder.
Custom(msg) == [err |-> "Custom", custom |-> msg]
MissingField(p) == [err |-> "MissingField", missing |-> p]
InvalidType(expected, got) == [err |-> "InvalidType", expected |-> expected, got |-> got]

\* What a visitor was handed: each kind has its own payload field.
VUnit == [ty |-> "unit"]
VBool(b) == [ty |-> "bool", b |-> b]
VInt(kind, n) == [ty |-> kind, n |-> n]
VFloat(kind, s) == [ty |-> kind, text |-> s]
VChar(c) == [ty |-> "char", c |-> c]
VStr(s) == [ty |-> "str", s |-> s]
VNone == [ty |-> "option_none"]
VSome(v) == [ty |-> "option_some", inner |-> v]
VSeq(items) == [ty |-> "seq", items |-> items]
VMap(entries) == [ty |-> "map", entries |-> entries]
VEnum(variant, payload) == [ty |-> "enum", variant |-> variant, payload |-> payload]

Contains(s, x) == \E i \in 1..Len(s) : s[i] = x

\* The text of key below the prefix p: the key itself at the root, what
\* follows p and the separator when the key starts with both, else nothing.
Relevant(key, p) ==
    IF p = <<>> THEN Some(key)
    ELSE IF StartsWith(key, p) /\ StartsWith(SubSeq(key, Len(p) + 1, Len(key)), JOIN_TAG)
    THEN Some(SubSeq(key, Len(p) + Len(JOIN_TAG) + 1, Len(key)))
    ELSE None

RECURSIVE child_fields_from(_, _, _)
\* The loop of child_fields over the keys not yet seen: the first piece of
\* the relevant text is pushed unless it is empty or already there.
child_fields_from(found, entries, p) ==
    IF entries = <<>> THEN found
    ELSE LET relevant == Relevant(Head(entries).k, p)
             field == Head(SplitAt(<<>>, relevant.some))
         IN  IF relevant.tag = "Some" /\ field # <<>> /\ ~Contains(found, field)
             THEN child_fields_from(Append(found, field), Tail(entries), p)
             ELSE child_fields_from(found, Tail(entries), p)

\* Mutant of child_fields: the keys are walked from the last to the first.
child_fields_reversed(d, p) ==
    child_fields_from(<<>>, [i \in 1..Len(d) |-> d[Len(d) + 1 - i]], p)

child_fields(d, p) == child_fields_from(<<>>, d, p)

get_leaf_value(d, p) ==
    IF p = <<>> THEN None
    ELSE IF HasKey(d, p) THEN Some(d[KeyIndex(d, p)].v) ELSE None

is_array(d, p) ==
    LET fs == child_fields(d, p)
    IN  \E i \in 1..Len(fs) : StartsWith(fs[i], ARR_PFX)

RECURSIVE SortInsert(_, _)
\* n put into the sorted sequence s, after the elements equal to it.
SortInsert(s, n) ==
    IF s = <<>> THEN <<n>>
    ELSE IF n < Head(s) THEN <<n>> \o s
    ELSE <<Head(s)>> \o SortInsert(Tail(s), n)

RECURSIVE Sorted(_)
\* Vec::sort
Sorted(s) == IF s = <<>> THEN <<>> ELSE SortInsert(Sorted(SubSeq(s, 1, Len(s) - 1)), s[Len(s)])

RECURSIVE FilterMapIndex(_)
\* filter_map(|f| f.strip_prefix(ARR_PFX)?.parse().ok())
FilterMapIndex(fs) ==
    IF fs = <<>> THEN <<>>
    ELSE LET f == Head(fs)
             n == parse_usize(SubSeq(f, Len(ARR_PFX) + 1, Len(f)))
         IN  IF StartsWith(f, ARR_PFX) /\ n.tag = "Some"
             THEN <<n.some>> \o FilterMapIndex(Tail(fs))
             ELSE FilterMapIndex(Tail(fs))

array_indices(d, p) == Sorted(FilterMapIndex(child_fields(d, p)))

\* Mutant of has_non_empty_descendants: only the entry at the prefix counts.
has_non_empty_leaf_only(d, p) ==
    \E i \in 1..Len(d) : d[i].k = p /\ d[i].v # <<>>

has_non_empty_descendants(d, p) ==
    \E i \in 1..Len(d) :
        /\ \/ p = <<>>
           \/ d[i].k = p
           \/ /\ StartsWith(d[i].k, p)
              /\ StartsWith(SubSeq(d[i].k, Len(p) + 1, Len(d[i].k)), JOIN_TAG)
        /\ d[i].v # <<>>

-----------------------------------------------------------------------------
(* StrDeserializer: the raw text of a leaf parsed as the requested kind.   *)

\* A character of two bytes in UTF-8 (U+00E9); every other character of
\* the model is ASCII.
EAcute == "e-acute"

Utf8Len(c) == IF c = EAcute THEN 2 ELSE 1

RECURSIVE ByteLen(_)
\* str::len: the number of bytes of the text.
ByteLen(s) == IF s = <<>> THEN 0 ELSE Utf8Len(Head(s)) + ByteLen(Tail(s))

\* The integer kinds: signed or not, least and greatest value. The kinds
\* wider than 32 bits carry the bounds of i32 in their place: every text
\* of the model is shorter than the decimal of those bounds.
IntRange(kind) ==
    CASE kind = "i8" -> [signed |-> TRUE, lo |-> -128, hi |-> 127]
      [] kind = "i16" -> [signed |-> TRUE, lo |-> -32768, hi |-> 32767]
      [] kind \in {"i32", "i64", "i128"} ->
            [signed |-> TRUE, lo |-> -2147483647 - 1, hi |-> 2147483647]
      [] kind = "u8" -> [signed |-> FALSE, lo |-> 0, hi |-> 255]
      [] kind = "u16" -> [signed |-> FALSE, lo |-> 0, hi |-> 65535]
      [] kind \in {"u32", "u64", "u128"} ->
            [signed |-> FALSE, lo |-> 0, hi |-> 2147483647]

IntKinds == {"i8", "i16", "i32", "i64", "i128", "u8", "u16", "u32", "u64", "u128"}
FloatKinds == {"f32", "f64"}

RECURSIVE AccumulateInt(_, _, _, _)
\* The digit loop of from_str_radix: each digit is added to (or taken
\* from) ten times the value so far; None on a non-digit or out of range.
AccumulateInt(acc, s, sign, range) ==
    IF s = <<>> THEN Some(acc)
    ELSE IF ~IsDigit(Head(s)) THEN None
    ELSE LET next == acc * Radix + sign * DigitVal(Head(s))
         IN  IF next > range.hi \/ next < range.lo THEN None
             ELSE AccumulateInt(next, Tail(s), sign, range)

\* str::parse::<iN / uN>().ok(): a lone sign is no number, '+' may lead any
\* kind, '-' only a signed one.
parse_int(s, kind) ==
    LET range == IntRange(kind)
    IN  IF s = <<>> \/ s = <<"+">> \/ s = <<"-">> THEN None
        ELSE IF Head(s) = "+" THEN AccumulateInt(0, Tail(s), 1, range)
        ELSE IF Head(s) = "-" /\ range.signed THEN AccumulateInt(0, Tail(s), -1, range)
        ELSE AccumulateInt(0, s, 1, range)

RECURSIVE LeadingDigits(_)
LeadingDigits(s) ==
    IF s # <<>> /\ IsDigit(Head(s)) THEN 1 + LeadingDigits(Tail(s)) ELSE 0

Drop(s, n) == SubSeq(s, n + 1, Len(s))

ToLower(c) ==
    CASE c = "A" -> "a" [] c = "E" -> "e" [] c = "F" -> "f" [] c = "I" -> "i"
      [] c = "N" -> "n" [] c = "T" -> "t" [] c = "Y" -> "y" [] OTHER -> c

\* The exponent of a decimal float: 'e', an optional sign, one digit or more.
IsExponent(s) ==
    /\ s # <<>>
    /\ ToLower(Head(s)) = "e"
    /\ LET t == Tail(s)
           digits == IF t # <<>> /\ Head(t) \in {"+", "-"} THEN Tail(t) ELSE t
       IN  digits # <<>> /\ LeadingDigits(digits) = Len(digits)

\* str::parse::<f32 / f64>().is_ok(): an optional sign, then digits with
\* at most one point and one digit at least, then an optional exponent;
\* or "inf", "infinity", "nan" in any case.
parse_float_ok(s) ==
    /\ s # <<>>
    /\ LET body == IF Head(s) \in {"+", "-"} THEN Tail(s) ELSE s
           whole == LeadingDigits(body)
           after == Drop(body, whole)
           frac == IF after # <<>> /\ Head(after) = "." THEN LeadingDigits(Tail(after)) ELSE 0
           rest == IF after # <<>> /\ Head(after) = "." THEN Drop(after, frac + 1) ELSE after
           lower == [i \in 1..Len(body) |-> ToLower(body[i])]
       IN  /\ body # <<>>
           /\ \/ /\ whole + frac >= 1
                 /\ rest = <<>> \/ IsExponent(rest)
              \/ lower \in {<<"i", "n", "f">>, <<"n", "a", "n">>,
                           <<"i", "n", "f", "i", "n", "i", "t", "y">>}

\* Mutant of StrDeserializer::deserialize_*: a string that reads as a
\* number is handed on in the canonical text of the number.
StrDeserializer_coercing(kind, value) ==
    IF kind = "string"
    THEN LET n == parse_int(value, "i32")
         IN  IF n.tag = "Some" /\ n.some >= 0 THEN Ok(VStr(Decimal(n.some)))
             ELSE Ok(VStr(value))
    ELSE IF kind \in IntKinds
    THEN LET n == parse_int(value, kind)
         IN  IF n.tag = "Some" THEN Ok(VInt(kind, n.some))
             ELSE Err(InvalidType(kind, value))
    ELSE Err(InvalidType(kind, value))

\* Mutant of StrDeserializer::deserialize_*: a text that does not parse is
\* handed on as it is.
StrDeserializer_lenient(kind, value) ==
    CASE kind = "bool" -> Ok(VBool(value = sTrue))
      [] kind \in IntKinds ->
            LET n == parse_int(value, kind)
            IN  IF n.tag = "Some" THEN Ok(VInt(kind, n.some)) ELSE Ok(VInt(kind, 0))
      [] kind \in FloatKinds -> Ok(VFloat(kind, value))
      [] kind = "char" -> IF Len(value) >= 1 THEN Ok(VChar(value[1])) ELSE Ok(VChar(" "))
      [] kind = "string" -> Ok(VStr(value))

\* StrDeserializer::deserialize_bool, _i8 .. _u64, _f32, _f64, _char, _str
\* and _string on the text value.
StrDeserializer_deserialize(kind, value) ==
    CASE kind = "bool" ->
            IF value = sTrue THEN Ok(VBool(TRUE))
            ELSE IF value = sFalse THEN Ok(VBool(FALSE))
            ELSE Err(InvalidType("bool", value))
      [] kind \in IntKinds ->
            LET n == parse_int(value, kind)
            IN  IF n.tag = "Some" THEN Ok(VInt(kind, n.some))
                ELSE Err(InvalidType(kind, value))
      [] kind \in FloatKinds ->
            IF parse_float_ok(value) THEN Ok(VFloat(kind, value))
            ELSE Err(InvalidType(kind, value))
      [] kind = "char" ->
            IF Len(value) = 1 THEN Ok(VChar(value[1]))
            ELSE Err(InvalidType("char", value))
      [] kind = "string" -> Ok(VStr(value))

ScalarKinds == {"bool", "char", "string"} \cup IntKinds \cup FloatKinds

\* FlattenedMapDeserializer::deserialize_bool .. deserialize_string
deserialize_scalar(d, p, kind) ==
    LET value == get_leaf_value(d, p)
    IN  IF value.tag = "Some" THEN StrDeserializer_deserialize(kind, value.some)
        ELSE Err(MissingField(p))

-----------------------------------------------------------------------------
(* The target types and the decode they drive.                             *)

\* bool, i8 .. u64, f32, f64, char, String
TScalar(kind) == [ty |-> kind]
\* Option<T>
TOption(t) == [ty |-> "option", wrapped |-> t]
\* Vec<T>
TSeq(t) == [ty |-> "seq", elem |-> t]
\* HashMap<String, T>
TMap(t) == [ty |-> "map", val |-> t]
\* An enum with derived Deserialize: a variant has a name and is a unit
\* variant (payload NoShape) or a newtype variant of the payload type.
TEnum(variants) == [ty |-> "enum", variants |-> variants]
Variant(name, payload) == [name |-> name, payload |-> payload]
\* A self-describing target, which takes whatever deserialize_any hands it.
TAny == [ty |-> "any"]

\* The prefix MapAccessor, SeqAccessor and EnumAccessor give the
\* deserializer of a child.
new_prefix(p, field) == IF p = <<>> THEN field ELSE p \o JOIN_TAG \o field

\* SeqAccessor::next_element_seed: format!("{ARR_PFX}{idx}") below the prefix.
seq_prefix(p, idx) == new_prefix(p, ARR_PFX \o Decimal(idx))

HasVariant(variants, name) == \E i \in 1..Len(variants) : variants[i].name = name

VariantOf(variants, name) ==
    variants[CHOOSE i \in 1..Len(variants) : variants[i].name = name]

\* Mutant of deserialize_enum: without a leaf the first child field is the
\* variant, however many there are.
enum_access_first_field(d, p) ==
    LET value == get_leaf_value(d, p)
        fs == child_fields(d, p)
    IN  IF value.tag = "Some"
        THEN [tag |-> Some(value.some), at |-> None, found |-> Len(fs)]
        ELSE IF Len(fs) >= 1
        THEN [tag |-> Some(fs[1]), at |-> Some(new_prefix(p, fs[1])), found |-> Len(fs)]
        ELSE [tag |-> None, at |-> None, found |-> 0]

\* What deserialize_enum hands to visit_enum: the variant tag, the prefix of
\* its payload (None for the unit-only access of a leaf), or the number of
\* child fields when there is no single one.
enum_access(d, p) ==
    LET value == get_leaf_value(d, p)
        fs == child_fields(d, p)
    IN  IF value.tag = "Some"
        THEN [tag |-> Some(value.some), at |-> None, found |-> Len(fs)]
        ELSE IF Len(fs) = 1
        THEN [tag |-> Some(fs[1]), at |-> Some(new_prefix(p, fs[1])), found |-> 1]
        ELSE [tag |-> None, at |-> None, found |-> Len(fs)]

\* format!("expected enum at '{}', found {} fields", prefix, fields.len())
ExpectedEnumMessage(p, n) ==
    <<"expected enum at '", p, "', found ", Decimal(n), " fields">>

RECURSIVE deserialize(_, _, _)
RECURSIVE visit_seq(_, _, _, _, _)
RECURSIVE visit_map(_, _, _, _, _)

\* The visitor of Vec<T>: next_element until the indices are exhausted or
\* an element fails.
visit_seq(d, p, ixs, t, acc) ==
    IF ixs = <<>> THEN Ok(VSeq(acc))
    ELSE LET r == deserialize(d, seq_prefix(p, Head(ixs)), t)
         IN  IF r.tag = "Ok" THEN visit_seq(d, p, Tail(ixs), t, Append(acc, r.value))
             ELSE r

\* The visitor of HashMap<String, T>: next_key, next_value until the fields
\* are exhausted or a value fails.
visit_map(d, p, fs, t, acc) ==
    IF fs = <<>> THEN Ok(VMap(acc))
    ELSE LET r == deserialize(d, new_prefix(p, Head(fs)), t)
         IN  IF r.tag = "Ok"
             THEN visit_map(d, p, Tail(fs), t, Append(acc, Entry(Head(fs), r.value)))
             ELSE r

\* T::deserialize(FlattenedMapDeserializer { data: d, prefix: p }) for the
\* target type t.
deserialize(d, p, t) ==
    CASE t.ty \in ScalarKinds -> deserialize_scalar(d, p, t.ty)
      [] t.ty = "option" ->
            IF has_non_empty_descendants(d, p)
            THEN LET r == deserialize(d, p, t.wrapped)
                 IN  IF r.tag = "Ok" THEN Ok(VSome(r.value)) ELSE r
            ELSE Ok(VNone)
      [] t.ty = "seq" -> visit_seq(d, p, array_indices(d, p), t.elem, <<>>)
      [] t.ty = "map" -> visit_map(d, p, child_fields(d, p), t.val, <<>>)
      [] t.ty = "enum" ->
            LET access == enum_access(d, p)
            IN  IF access.tag.tag = "None"
                THEN Err(Custom(ExpectedEnumMessage(p, access.found)))
                ELSE IF ~HasVariant(t.variants, access.tag.some)
                THEN Err(Custom(<<"unknown variant", access.tag.some>>))
                ELSE LET v == VariantOf(t.variants, access.tag.some)
                     IN  IF v.payload.ty = "none"
                         THEN Ok(VEnum(v.name, VUnit))
                         ELSE IF access.at.tag = "None"
                         THEN Err(Custom(<<"invalid type: unit variant, expected newtype variant">>))
                         ELSE LET r == deserialize(d, access.at.some, v.payload)
                              IN  IF r.tag = "Ok" THEN Ok(VEnum(v.name, r.value)) ELSE r
      [] t.ty = "any" ->
            LET value == get_leaf_value(d, p)
            IN  IF value.tag = "Some" THEN Ok(VStr(value.some))
                ELSE IF is_array(d, p)
                THEN visit_seq(d, p, array_indices(d, p), TAny, <<>>)
                ELSE visit_map(d, p, child_fields(d, p), TAny, <<>>)

-----------------------------------------------------------------------------
(* FlatMapDeserializer::infer_deserialize: the kind of a leaf guessed from *)
(* its text.                                                               *)

\* The integer kinds in the order infer_deserialize tries them.
InferInts == <<"i8", "i16", "i32", "i64", "i128", "u8", "u16", "u32", "u64", "u128">>

RECURSIVE FirstInt(_, _)
\* The first kind of kinds the text parses as, with the value.
FirstInt(kinds, s) ==
    IF kinds = <<>> THEN None
    ELSE LET n == parse_int(s, Head(kinds))
         IN  IF n.tag = "Some" THEN Some(VInt(Head(kinds), n.some))
             ELSE FirstInt(Tail(kinds), s)

\* The Value::String arm of infer_deserialize.
infer_text(s) ==
    IF s = sTrue THEN Ok(VBool(TRUE))
    ELSE IF s = sFalse THEN Ok(VBool(FALSE))
    ELSE IF FirstInt(InferInts, s).tag = "Some" THEN Ok(FirstInt(InferInts, s).some)
    ELSE IF parse_float_ok(s) THEN Ok(VFloat("f32", s))
    ELSE IF ByteLen(s) = 1 THEN Ok(VChar(Head(s)))
    ELSE Ok(VStr(s))

\* FlatMapDeserializer::get_value on the record held as Value::String.
get_value(d, p) == IF HasKey(d, p) THEN Some(Str(d[KeyIndex(d, p)].v)) ELSE None

\* FlatMapDeserializer::infer_deserialize
infer_deserialize(got) ==
    IF got.tag = "None" THEN Ok(VUnit)
    ELSE CASE got.some.kind = "string" -> infer_text(got.some.str)
           [] got.some.kind = "bool" -> Ok(VBool(got.some.bool))
           [] got.some.kind = "number" -> Ok(VInt("i64", got.some.num))
           [] got.some.kind = "null" -> Ok(VUnit)
           [] OTHER -> Err(Custom(<<"unsupported value type">>))

-----------------------------------------------------------------------------
(* The decoder state machine: one deserialize call on a bounded record,    *)
(* at a prefix the accessors can build from it, for a bounded target type. *)

\* Largest number of entries of an enumerated record of several keys.
MaxEntries == 2

\* Raw texts of a single leaf.
ScalarTexts ==
    {<<>>, sTrue, sFalse, <<"T", "r", "u", "e">>,
     <<"0", "0", "1", "2", "3">>, <<"2", "0", "0">>, <<"4", "0", "0", "0", "0">>,
     <<"-", "1">>, <<"+", "7">>, <<"-">>,
     <<"1", ".", "5">>, <<"1", "e">>, <<".">>, <<"N", "a", "N">>,
     sX, <<"x", "y">>, <<EAcute>>}

\* Records of one leaf, at the field "a" or under the empty key.
ScalarData == {<<Entry(k, t)>> : k \in {sA, <<>>}, t \in ScalarTexts}

\* Keys of the records of several entries: fields, nested fields, array
\* elements (one index written twice, as "idx-1" and as "idx-01"), a key
\* that ends in the separator, a root index and the empty key.
DecodeKeys ==
    {sA, sB,
     sA \o JOIN_TAG \o sB,
     sA \o JOIN_TAG \o sK,
     sA \o JOIN_TAG \o ARR_PFX \o <<"0">>,
     sA \o JOIN_TAG \o ARR_PFX \o <<"1">>,
     sA \o JOIN_TAG \o ARR_PFX \o <<"0", "1">>,
     sA \o JOIN_TAG,
     ARR_PFX \o <<"0">>,
     <<>>}

StructTexts == {<<>>, sX}

Injective(ks) == \A i, j \in 1..Len(ks) : ks[i] = ks[j] => i = j

\* An IndexMap has each key once, in the order of insertion.
StructData ==
    {[i \in 1..Len(kt[1]) |-> Entry(kt[1][i], kt[2][i])] :
        kt \in {p \in SeqsFrom0(DecodeKeys, MaxEntries) \X SeqsFrom0(StructTexts, MaxEntries) :
                  Len(p[1]) = Len(p[2]) /\ Injective(p[1])}}

DecodeData == ScalarData \cup StructData

\* The prefixes one more accessor step reaches from those of S.
AccessorStep(d, S) ==
    S \cup UNION {{new_prefix(q, child_fields(d, q)[i]) :
                      i \in 1..Len(child_fields(d, q))} : q \in S}
      \cup UNION {{seq_prefix(q, array_indices(d, q)[i]) :
                      i \in 1..Len(array_indices(d, q))} : q \in S}

\* The prefixes a deserializer can hold: the root, and what MapAccessor,
\* SeqAccessor and EnumAccessor build below a prefix already reached.
ReachablePrefixes(d) == AccessorStep(d, AccessorStep(d, AccessorStep(d, {<<>>})))

TheEnum ==
    TEnum(<<Variant(sX, NoShape), Variant(sB, TScalar("string")), Variant(sK, NoShape)>>)

Shapes ==
    {TScalar("bool"), TScalar("i8"), TScalar("u8"), TScalar("f64"),
     TScalar("char"), TScalar("string"),
     TOption(TScalar("string")), TOption(TScalar("i8")),
     TOption(TMap(TScalar("string"))),
     TSeq(TScalar("string")), TSeq(TOption(TScalar("string"))),
     TMap(TScalar("string")), TMap(TSeq(TScalar("string"))),
     TheEnum, TAny}

InitDecode ==
    /\ TreeIdle
    /\ CodecIdle
    /\ WriterIdle
    /\ ReaderIdle
    /\ data \in DecodeData
    /\ de_prefix \in ReachablePrefixes(data)
    /\ shape \in Shapes
    /\ pc \in {"decode", "infer"}
    /\ pc = "infer" => shape = TAny
    /\ indices = <<>>
    /\ fields = <<>>
    /\ current_field = None
    /\ visited = <<>>
    /\ decoded = NoResult

\* deserialize_bool, _i8 .. _u64, _f32, _f64, _char, _str, _string
DeserializeScalar ==
    /\ pc = "decode"
    /\ shape.ty \in ScalarKinds
    /\ decoded' = deserialize_scalar(data, de_prefix, shape.ty)
    /\ pc' = "decoded"
    /\ UNCHANGED <<data, de_prefix, shape, indices, fields, current_field, visited>>
    /\ UNCHANGED <<treeVars, codecVars, writerVars, readerVars>>

\* deserialize_option: visit_some(self) or visit_none()
DeserializeOption ==
    /\ pc = "decode"
    /\ shape.ty = "option"
    /\ decoded' = deserialize(data, de_prefix, shape)
    /\ pc' = "decoded"
    /\ UNCHANGED <<data, de_prefix, shape, indices, fields, current_field, visited>>
    /\ UNCHANGED <<treeVars, codecVars, writerVars, readerVars>>

\* deserialize_seq: the visitor is given a SeqAccessor over array_indices.
DeserializeSeq ==
    /\ pc = "decode"
    /\ shape.ty = "seq"
    /\ indices' = array_indices(data, de_prefix)
    /\ pc' = "seq"
    /\ UNCHANGED <<data, de_prefix, shape, fields, current_field, visited, decoded>>
    /\ UNCHANGED <<treeVars, codecVars, writerVars, readerVars>>

\* SeqAccessor::next_element_seed, called by the visitor of Vec<T>: the
\* next index is decoded at its prefix; at the end of the indices the
\* visitor returns the elements, at a failing element its error.
NextElementSeed ==
    /\ pc = "seq"
    /\ IF indices = <<>>
       THEN /\ decoded' = Ok(VSeq([i \in 1..Len(visited) |-> visited[i].res.value]))
            /\ pc' = "decoded"
            /\ UNCHANGED <<indices, visited>>
       ELSE LET idx == Head(indices)
                at == seq_prefix(de_prefix, idx)
                r == deserialize(data, at, shape.elem)
            IN  /\ indices' = Tail(indices)
                /\ visited' = Append(visited, [index |-> idx, at |-> at, res |-> r])
                /\ decoded' = IF r.tag = "Ok" THEN decoded ELSE r
                /\ pc' = IF r.tag = "Ok" THEN "seq" ELSE "decoded"
    /\ UNCHANGED <<data, de_prefix, shape, fields, current_field>>
    /\ UNCHANGED <<treeVars, codecVars, writerVars, readerVars>>

\* deserialize_map: the visitor is given a MapAccessor over child_fields.
DeserializeMap ==
    /\ pc = "decode"
    /\ shape.ty = "map"
    /\ fields' = child_fields(data, de_prefix)
    /\ current_field' = None
    /\ pc' = "map_key"
    /\ UNCHANGED <<data, de_prefix, shape, indices, visited, decoded>>
    /\ UNCHANGED <<treeVars, codecVars, writerVars, readerVars>>

\* MapAccessor::next_key_seed, called by the visitor of HashMap<String, T>:
\* the next field is the key; at the end of the fields the visitor returns
\* the entries.
NextKeySeed ==
    /\ pc = "map_key"
    /\ IF fields = <<>>
       THEN /\ decoded' = Ok(VMap([i \in 1..Len(visited) |->
                                      Entry(visited[i].key, visited[i].res.value)]))
            /\ pc' = "decoded"
            /\ UNCHANGED <<fields, current_field, visited>>
       ELSE /\ current_field' = Some(Head(fields))
            /\ fields' = Tail(fields)
            /\ visited' = Append(visited, [key |-> Head(fields), at |-> None, res |-> NoResult])
            /\ pc' = "map_value"
            /\ UNCHANGED decoded
    /\ UNCHANGED <<data, de_prefix, shape, indices>>
    /\ UNCHANGED <<treeVars, codecVars, writerVars, readerVars>>

\* MapAccessor::next_value_seed: the value of the current field is decoded
\* at the prefix extended by the field.
NextValueSeed ==
    /\ pc = "map_value"
    /\ current_field.tag = "Some"
    /\ LET field == current_field.some
           at == new_prefix(de_prefix, field)
           r == deserialize(data, at, shape.val)
       IN  /\ current_field' = None
           /\ visited' = [visited EXCEPT ![Len(visited)] =
                              [key |-> field, at |-> Some(at), res |-> r]]
           /\ decoded' = IF r.tag = "Ok" THEN decoded ELSE r
           /\ pc' = IF r.tag = "Ok" THEN "map_key" ELSE "decoded"
    /\ UNCHANGED <<data, de_prefix, shape, indices, fields>>
    /\ UNCHANGED <<treeVars, codecVars, writerVars, readerVars>>

\* deserialize_enum, with EnumAccessor::variant_seed and the VariantAccess
\* call the derived visitor makes.
DeserializeEnum ==
    /\ pc = "decode"
    /\ shape.ty = "enum"
    /\ visited' = <<enum_access(data, de_prefix)>>
    /\ decoded' = deserialize(data, de_prefix, shape)
    /\ pc' = "decoded"
    /\ UNCHANGED <<data, de_prefix, shape, indices, fields, current_field>>
    /\ UNCHANGED <<treeVars, codecVars, writerVars, readerVars>>

\* FlattenedMapDeserializer::deserialize_any
DeserializeAny ==
    /\ pc = "decode"
    /\ shape.ty = "any"
    /\ decoded' = deserialize(data, de_prefix, shape)
    /\ pc' = "decoded"
    /\ UNCHANGED <<data, de_prefix, shape, indices, fields, current_field, visited>>
    /\ UNCHANGED <<treeVars, codecVars, writerVars, readerVars>>

\* FlatMapDeserializer::deserialize_any (and every other deserialize_* of
\* it): infer_deserialize on the value under the prefix.
InferDeserialize ==
    /\ pc = "infer"
    /\ decoded' = infer_deserialize(get_value(data, de_prefix))
    /\ pc' = "inferred"
    /\ UNCHANGED <<data, de_prefix, shape, indices, fields, current_field, visited>>
    /\ UNCHANGED <<treeVars, codecVars, writerVars, readerVars>>

NextDecode ==
    \/ DeserializeScalar
    \/ DeserializeOption
    \/ DeserializeSeq
    \/ NextElementSeed
    \/ DeserializeMap
    \/ NextKeySeed
    \/ NextValueSeed
    \/ DeserializeEnum
    \/ DeserializeAny
    \/ InferDeserialize

SpecDecode == InitDecode /\ [][NextDecode]_vars

-----------------------------------------------------------------------------
(* Claims about FlattenedMapDeserializer.                                  *)

\* The deserialize call on (data, de_prefix, shape) has returned.
Decoded == pc = "decoded"

\* There is a leaf at the prefix: an entry whose key is the prefix, below
\* the root.
HasLeaf == de_prefix # <<>> /\ HasKey(data, de_prefix)

\* The raw text of the entry whose key is the prefix.
LeafText == data[KeyIndex(data, de_prefix)].v

\* C11: a leaf decoded into a String target is its raw text, unchanged,
\* whatever the text (digits with leading zeros and the empty text too);
\* the same leaf decoded into an integer target is the integer its digits
\* denote ("00123" is 123).
C11_StringKeptIntegerParsed ==
    (Decoded /\ HasLeaf) =>
        /\ shape = TScalar("string") => decoded = Ok(VStr(LeafText))
        /\ (shape = TScalar("i8") /\ AllDigits(LeafText) /\ NumberOf(LeafText) <= 127)
              => decoded = Ok(VInt("i8", NumberOf(LeafText)))

\* Witness of C11: the leaf "00123" came back from a String target as the
\* five characters it is.
C11_Witness ==
    /\ Decoded
    /\ HasLeaf
    /\ shape = TScalar("string")
    /\ LeafText = <<"0", "0", "1", "2", "3">>
    /\ decoded = Ok(VStr(<<"0", "0", "1", "2", "3">>))

\* The key is the prefix or lies below it: it continues the prefix with the
\* separator. Every key lies below the root.
Descends(key, p) == p = <<>> \/ key = p \/ StartsWith(key, p \o JOIN_TAG)

\* Some entry at or below the prefix has text.
PresentAt(p) == \E i \in 1..Len(data) : Descends(data[i].k, p) /\ data[i].v # <<>>

\* C12: an Option target at a prefix is None exactly when no entry at or
\* below the prefix has non-empty text (also when there is no entry there);
\* otherwise it is Some of what the wrapped type decodes to at the same
\* prefix (or the error of that decode), and a String leaf below it whose
\* text is empty is kept as the empty string.
C12_OptionPresence ==
    (Decoded /\ shape.ty = "option") =>
        IF ~PresentAt(de_prefix) THEN decoded = Ok(VNone)
        ELSE LET r == deserialize(data, de_prefix, shape.wrapped)
             IN  /\ decoded # Ok(VNone)
                 /\ decoded = IF r.tag = "Ok" THEN Ok(VSome(r.value)) ELSE r
                 /\ (shape.wrapped = TMap(TScalar("string")) /\ decoded.tag = "Ok") =>
                        \A i \in 1..Len(data) :
                            \A f \in {sA, sB, sK} :
                                (data[i].k = new_prefix(de_prefix, f) /\ data[i].v = <<>>)
                                    => Contains(decoded.value.inner.entries, Entry(f, VStr(<<>>)))

\* Witness of C12: an Option of a map of strings is Some, and one of its
\* two entries is the empty string.
C12_Witness ==
    /\ Decoded
    /\ shape = TOption(TMap(TScalar("string")))
    /\ de_prefix = sA
    /\ PresentAt(de_prefix)
    /\ decoded = Ok(VSome(VMap(<<Entry(sB, VStr(<<>>)), Entry(sK, VStr(sX))>>)))

\* The text parses as the requested scalar kind.
ParsesAs(kind, text) ==
    CASE kind = "bool" -> text \in {sTrue, sFalse}
      [] kind \in IntKinds -> parse_int(text, kind).tag = "Some"
      [] kind \in FloatKinds -> parse_float_ok(text)
      [] kind = "char" -> Len(text) = 1
      [] kind = "string" -> TRUE

\* C13 (as stated): for a scalar target, MissingField carrying the prefix
\* when no entry has the prefix as its key; InvalidType carrying the kind
\* and the raw text when the entry exists and its text does not parse as
\* the kind (bool takes only "true" and "false"); a value only from a text
\* that parses.
C13_ScalarLeaf ==
    (Decoded /\ shape.ty \in ScalarKinds) =>
        /\ ~HasKey(data, de_prefix) => decoded = Err(MissingField(de_prefix))
        /\ (HasKey(data, de_prefix) /\ ~ParsesAs(shape.ty, LeafText))
              => decoded = Err(InvalidType(shape.ty, LeafText))
        /\ decoded.tag = "Ok" => (HasKey(data, de_prefix) /\ ParsesAs(shape.ty, LeafText))

\* C13 (amended): the same below the root; at the root, where the prefix
\* is empty, the result is MissingField carrying the empty prefix whether
\* or not an entry has the empty key.
C13_ScalarLeafBelowRoot ==
    (Decoded /\ shape.ty \in ScalarKinds) =>
        /\ ~HasLeaf => decoded = Err(MissingField(de_prefix))
        /\ (HasLeaf /\ ~ParsesAs(shape.ty, LeafText))
              => decoded = Err(InvalidType(shape.ty, LeafText))
        /\ (HasLeaf /\ ParsesAs(shape.ty, LeafText)) => decoded.tag = "Ok"
        /\ (HasLeaf /\ shape.ty = "bool" /\ decoded.tag = "Ok")
              => decoded.value = VBool(LeafText = sTrue)

\* Witness of C13: the leaf "True" was refused as a bool, with the kind
\* and the text in the error.
C13_Witness ==
    /\ Decoded
    /\ shape = TScalar("bool")
    /\ HasLeaf
    /\ LeafText = <<"T", "r", "u", "e">>
    /\ decoded = Err(InvalidType("bool", <<"T", "r", "u", "e">>))

\* The direct child tokens of the prefix p: the first piece of what
\* follows p and the separator in a key (of the whole key at the root).
ChildTokens(p) ==
    {Head(SplitAt(<<>>, Relevant(data[i].k, p).some)) :
        i \in {j \in 1..Len(data) : Relevant(data[j].k, p).tag = "Some"}}

\* The indices that occur among the direct child tokens of p.
ChildIndices(p) ==
    {from_str(t).idx : t \in {u \in ChildTokens(p) : from_str(u).seg = "Idx"}}

\* C14: a sequence target visits the distinct indices among the direct
\* child tokens of the prefix, each once, in strictly ascending order, each
\* at the prefix extended by "idx-<i>"; a gap is skipped without error, and
\* without index children the sequence is empty.
C14_SeqVisitsEachIndexOnce ==
    (shape.ty = "seq" /\ pc \in {"seq", "decoded"}) =>
        /\ \A i \in 1..Len(visited) :
              /\ visited[i].index \in ChildIndices(de_prefix)
              /\ visited[i].at = new_prefix(de_prefix, ARR_PFX \o Decimal(visited[i].index))
        /\ \A i, j \in 1..Len(visited) : i < j => visited[i].index < visited[j].index
        /\ (pc = "decoded" /\ decoded.tag = "Ok")
              => {visited[i].index : i \in 1..Len(visited)} = ChildIndices(de_prefix)
        /\ (pc = "decoded" /\ ChildIndices(de_prefix) = {}) => decoded = Ok(VSeq(<<>>))

\* The first entry of the record whose key has t as direct child token of p.
FirstOccurrence(p, t) ==
    CHOOSE i \in 1..Len(data) :
        /\ Relevant(data[i].k, p).tag = "Some"
        /\ Head(SplitAt(<<>>, Relevant(data[i].k, p).some)) = t
        /\ \A j \in 1..(i - 1) :
              Relevant(data[j].k, p).tag = "Some"
                  => Head(SplitAt(<<>>, Relevant(data[j].k, p).some)) # t

\* The map target was handed the tokens of the set T as its keys: only
\* those, each once, in the order of their first occurrence in the record,
\* each value decoded at the prefix extended by the token; all of them when
\* the decode came to its end.
PresentsTokens(T) ==
    /\ \A i \in 1..Len(visited) :
          /\ visited[i].key \in T
          /\ visited[i].at.tag = "Some" =>
                visited[i].at.some = IF de_prefix = <<>> THEN visited[i].key
                                     ELSE de_prefix \o JOIN_TAG \o visited[i].key
    /\ \A i, j \in 1..Len(visited) :
          i < j => FirstOccurrence(de_prefix, visited[i].key)
                      < FirstOccurrence(de_prefix, visited[j].key)
    /\ (pc = "decoded" /\ decoded.tag = "Ok")
          => {visited[i].key : i \in 1..Len(visited)} = T

MapRunning == shape.ty = "map" /\ pc \in {"map_key", "map_value", "decoded"}

\* C15 (as stated): a map target is presented exactly the direct child
\* tokens of the prefix that decode as Field segments (no index token),
\* each once, in the order of first occurrence, each value decoded at the
\* prefix extended by the token.
C15_MapPresentsFieldTokens ==
    MapRunning =>
        PresentsTokens({t \in ChildTokens(de_prefix) : from_str(t).seg = "Field"})

\* C15 (amended): a map target is presented exactly the non-empty direct
\* child tokens of the prefix, index tokens among them, each once, in the
\* order of first occurrence, each value decoded at the prefix extended by
\* the token.
C15_MapPresentsNonEmptyTokens ==
    MapRunning => PresentsTokens(ChildTokens(de_prefix) \ {<<>>})

\* Witness of C15: below "a" the map was handed the keys "idx-0" and "b",
\* in the order of the record, and both values.
C15_Witness ==
    /\ shape = TMap(TScalar("string"))
    /\ pc = "decoded"
    /\ de_prefix = sA
    /\ decoded.tag = "Ok"
    /\ Len(visited) = 2
    /\ visited[1].key = ARR_PFX \o <<"0">>
    /\ visited[1].at = Some(sA \o JOIN_TAG \o ARR_PFX \o <<"0">>)
    /\ visited[2].key = sB

\* The enum target was decoded as the claim C16 has it, where hasLeaf says
\* whether an entry counts as the leaf of the prefix and T is the set of
\* child tokens that count: with a leaf, its text is the tag of a unit
\* variant; else with one token in T, the token is the tag and the payload
\* is decoded below it; else the error names the prefix and the number of
\* tokens.
EnumDecodedBy(hasLeaf, T) ==
    LET access == visited[1]
    IN  IF hasLeaf
        THEN /\ access.tag = Some(LeafText)
             /\ access.at = None
             /\ LeafText \in {sX, sK} => decoded = Ok(VEnum(LeafText, VUnit))
             /\ LeafText \notin {sX, sK} => decoded.tag = "Err"
        ELSE IF Cardinality(T) = 1
        THEN LET t == CHOOSE u \in T : TRUE
                 at == IF de_prefix = <<>> THEN t ELSE de_prefix \o JOIN_TAG \o t
             IN  /\ access.tag = Some(t)
                 /\ access.at = Some(at)
                 /\ t \in {sX, sK} => decoded = Ok(VEnum(t, VUnit))
                 /\ t = sB => decoded =
                        (LET r == deserialize(data, at, TScalar("string"))
                         IN  IF r.tag = "Ok" THEN Ok(VEnum(sB, r.value)) ELSE r)
        ELSE /\ access.tag = None
             /\ decoded = Err(Custom(<<"expected enum at '", de_prefix, "', found ",
                                       Decimal(Cardinality(T)), " fields">>))

\* C16 (as stated): with an entry whose key is the prefix, its text is the
\* tag of a unit variant; else, with exactly one distinct direct child
\* token, the token is the tag and the payload is decoded below it; else
\* the error names the prefix and the number of child tokens.
C16_EnumByLeafOrSingleChild ==
    (Decoded /\ shape.ty = "enum") =>
        EnumDecodedBy(HasKey(data, de_prefix), ChildTokens(de_prefix))

\* C16 (amended): the same, where the entry is one below the root and the
\* child tokens are the non-empty ones.
C16_EnumByLeafOrSingleNonEmptyChild ==
    (Decoded /\ shape.ty = "enum") =>
        EnumDecodedBy(HasLeaf, ChildTokens(de_prefix) \ {<<>>})

\* Witness of C16: without a leaf at "a", its single child token "b" was
\* the variant and the payload came from "a__b".
C16_Witness ==
    /\ Decoded
    /\ shape.ty = "enum"
    /\ de_prefix = sA
    /\ ~HasLeaf
    /\ visited[1].at = Some(sA \o JOIN_TAG \o sB)
    /\ decoded = Ok(VEnum(sB, VStr(sX)))

\* A schema-free decode has returned: infer_deserialize of
\* FlatMapDeserializer, or deserialize_any of FlattenedMapDeserializer on a
\* leaf.
AnyDecodedLeaf ==
    \/ pc = "inferred" /\ HasKey(data, de_prefix)
    \/ Decoded /\ shape = TAny /\ HasLeaf

\* The kind the claim C17 gives a raw text: the first that takes it of
\* bool, the signed integers from narrow to wide, the unsigned integers
\* from narrow to wide, floating point, a single character, and else string.
KindOfText(s) ==
    IF s \in {sTrue, sFalse} THEN "bool"
    ELSE IF \E i \in 1..Len(InferInts) : parse_int(s, InferInts[i]).tag = "Some"
    THEN InferInts[CHOOSE i \in 1..Len(InferInts) :
                      /\ parse_int(s, InferInts[i]).tag = "Some"
                      /\ \A j \in 1..(i - 1) : parse_int(s, InferInts[j]).tag = "None"]
    ELSE IF parse_float_ok(s) THEN "f32"
    ELSE IF Len(s) = 1 THEN "char"
    ELSE "str"

\* C17: when the target is not statically known, the raw text of a leaf is
\* handed on as the first kind that takes it, in the order bool, signed
\* integers, unsigned integers, floating point, single character, string.
C17_AnyInfersKind ==
    AnyDecodedLeaf => (decoded.tag = "Ok" /\ decoded.value.ty = KindOfText(LeafText))

-----------------------------------------------------------------------------
(* NestedCsvWriter: the header row of the first item, a row per item.      *)

\* Largest number of serialize calls on one writer.
MaxItems == 3

\* A value of T that serde_json::to_value refuses.
Unserializable == [kind |-> "unserializable"]

\* nested_csv::write::Error
SerializingToValue == [err |-> "SerializingToValue"]
WritingHeaders == [err |-> "WritingHeaders"]
WritingRecord(idx) == [err |-> "WritingRecord", idx |-> idx]
ExtraValuesComparedToHeaders(extra) ==
    [err |-> "ExtraValuesComparedToHeaders", extra_values |-> extra]

\* A record handed to csv::Writer::write_record, and whether the output
\* took it.
HeaderRecord(cells, ok) == [row |-> "headers", cells |-> cells, ok |-> ok]
DataRecord(cells, ok) == [row |-> "record", cells |-> cells, ok |-> ok]

\* Mutant of Map::remove: the value is read and the entry stays in the map.
MapRemove_peek(m, k) ==
    IF ~HasKey(m, k) THEN [value |-> None, map |-> m]
    ELSE [value |-> Some(m[KeyIndex(m, k)].v), map |-> m]

\* Map::remove: the value of the key, if any, and the map without it. An
\* insertion-ordered Map moves its last entry into the gap (swap_remove).
MapRemove(m, k) ==
    IF ~HasKey(m, k) THEN [value |-> None, map |-> m]
    ELSE LET i == KeyIndex(m, k)
             n == Len(m)
         IN  [value |-> Some(m[i].v),
              map |-> IF preserve_order
                      THEN [j \in 1..(n - 1) |-> IF j = i THEN m[n] ELSE m[j]]
                      ELSE [j \in 1..(n - 1) |-> IF j < i THEN m[j] ELSE m[j + 1]]]

\* The text of a cell: nothing for Null, to_string() of a bool, a number or
\* a string; any other value panics ("bad flattening").
cell_text(v) ==
    CASE v.kind = "null" -> Some(<<>>)
      [] v.kind = "bool" -> Some(IF v.bool THEN sTrue ELSE sFalse)
      [] v.kind = "number" -> Some(Decimal(v.num))
      [] v.kind = "string" -> Some(v.str)
      [] OTHER -> None

RECURSIVE take_row_strict(_, _, _)
\* Mutant of the row of an item: a header the item lacks leaves the row
\* short by a cell.
take_row_strict(hs, m, cells) ==
    IF hs = <<>> THEN [cells |-> Some(cells), rest |-> m]
    ELSE LET removed == MapRemove(m, Head(hs))
         IN  IF removed.value.tag = "None" THEN take_row_strict(Tail(hs), m, cells)
             ELSE take_row_strict(Tail(hs), removed.map,
                                  Append(cells, cell_text(removed.value.some).some))

RECURSIVE take_row(_, _, _)
\* The row of an item: for each header in turn the value removed from the
\* item, or Null when the item has no such key, as text; and what is left
\* of the item. No cells when a value panicked.
take_row(hs, m, cells) ==
    IF hs = <<>> THEN [cells |-> Some(cells), rest |-> m]
    ELSE LET removed == MapRemove(m, Head(hs))
             f == IF removed.value.tag = "Some" THEN removed.value.some ELSE Null
             text == cell_text(f)
         IN  IF text.tag = "None" THEN [cells |-> None, rest |-> removed.map]
             ELSE take_row(Tail(hs), removed.map, Append(cells, text.some))

\* Mutant of the headers of the first item: its keys in sorted order.
item_keys_sorted(m) == LET s == SortEntries(<<>>, m) IN [i \in 1..Len(s) |-> s[i].k]

\* item.keys().cloned().collect()
item_keys(m) == [i \in 1..Len(m) |-> m[i].k]

\* Items given to serialize: objects over the keys "a" and "b" in both
\* orders, with a Null, with a nested object and a nested array, with empty
\* containers, the empty object, a top-level scalar, and a value to_value
\* refuses.
WriterItems ==
    {Obj(<<Entry(sA, Num(1))>>),
     Obj(<<Entry(sA, Str(sX)), Entry(sB, Bool(TRUE))>>),
     Obj(<<Entry(sB, Num(Radix)), Entry(sA, Null)>>),
     Obj(<<Entry(sB, Str(sX))>>),
     Obj(<<Entry(sA, Obj(<<Entry(sB, Bool(FALSE))>>))>>),
     Obj(<<Entry(sA, Arr(<<Num(1), Str(sX)>>))>>),
     Obj(<<Entry(sA, Arr(<<>>)), Entry(sB, Obj(<<>>))>>),
     Obj(<<>>),
     Num(1),
     Unserializable}

\* A writer fresh from NestedCsvWriter::new, used call by call ("writer") or
\* by write_nested_csv on the items it was given ("batch").
InitWriter ==
    /\ preserve_order \in BOOLEAN
    /\ input = Null
    /\ pc \in {"writer", "batch"}
    /\ src = "none"
    /\ flat = <<>>
    /\ pending = <<>>
    /\ consumed = 0
    /\ out = Null
    /\ result = NoResult
    /\ CodecIdle
    /\ DecoderIdle
    /\ headers = None
    /\ count = 0
    /\ written = <<>>
    /\ served = <<>>
    /\ ret = NoResult
    /\ batch_items \in IF pc = "batch" THEN SeqsUpTo(WriterItems, MaxItems) ELSE {<<>>}
    /\ total = NoResult
    /\ ReaderIdle

\* NestedCsvWriter::serialize(item), on an output that takes the header
\* record (hdr_ok) and the data record (row_ok) or refuses them. The item
\* is turned into a Value and flattened; without headers yet, its keys are
\* written as the header row and kept; the count goes up; the row is taken
\* from the item header by header; what is left of the item afterwards is
\* an error, and else the row is written.
serialize(given, hdr_ok, row_ok) ==
    LET item == IF preserve_order THEN given ELSE SortValue(given)
        first == headers.tag = "None"
        m == flattened(item)
        hs == IF first THEN item_keys(m) ELSE headers.some
        withHeaders == IF first THEN Append(written, HeaderRecord(hs, hdr_ok))
                       ELSE written
        taken == take_row(hs, m, <<>>)
    IN  /\ served' = Append(served, item)
        /\ IF item = Unserializable
           THEN /\ ret' = Err(SerializingToValue)
                /\ UNCHANGED <<headers, count, written>>
           ELSE IF first /\ ~hdr_ok
           THEN /\ ret' = Err(WritingHeaders)
                /\ written' = withHeaders
                /\ UNCHANGED <<headers, count>>
           ELSE /\ headers' = Some(hs)
                /\ count' = count + 1
                /\ IF taken.cells.tag = "None"
                   THEN /\ ret' = Panic(<<"bad flattening">>)
                        /\ written' = withHeaders
                   ELSE IF taken.rest # <<>>
                   THEN /\ ret' = Err(ExtraValuesComparedToHeaders(taken.rest))
                        /\ written' = withHeaders
                   ELSE IF ~row_ok
                   THEN /\ ret' = Err(WritingRecord(count + 1))
                        /\ written' = Append(withHeaders,
                                             DataRecord(taken.cells.some, FALSE))
                   ELSE /\ ret' = Ok(<<>>)
                        /\ written' = Append(withHeaders,
                                             DataRecord(taken.cells.some, TRUE))

\* A call of serialize by the user of the writer.
Serialize ==
    /\ pc = "writer"
    /\ Len(served) < MaxItems
    /\ \E given \in WriterItems, hdr_ok \in BOOLEAN, row_ok \in BOOLEAN :
          serialize(given, hdr_ok, row_ok)
    /\ UNCHANGED <<batch_items, total>>
    /\ UNCHANGED <<preserve_order, input, pc, src, flat, pending, consumed, out, result>>
    /\ UNCHANGED <<codecVars, decoderVars, readerVars>>

\* Mutant of write_nested_csv: for_each in place of try_for_each, an error
\* of serialize is dropped and the next item is served.
WriteNestedCsvItem_for_each ==
    /\ pc = "batch"
    /\ batch_items # <<>>
    /\ \E hdr_ok \in BOOLEAN, row_ok \in BOOLEAN :
          serialize(Head(batch_items), hdr_ok, row_ok)
    /\ batch_items' = Tail(batch_items)
    /\ UNCHANGED <<pc, total>>
    /\ UNCHANGED <<preserve_order, input, src, flat, pending, consumed, out, result>>
    /\ UNCHANGED <<codecVars, decoderVars, readerVars>>

\* write_nested_csv, one turn of try_for_each: serialize the next item; an
\* error ends the call and is what it returns (a panic unwinds through it).
WriteNestedCsvItem ==
    /\ pc = "batch"
    /\ batch_items # <<>>
    /\ \E hdr_ok \in BOOLEAN, row_ok \in BOOLEAN :
          serialize(Head(batch_items), hdr_ok, row_ok)
    /\ batch_items' = Tail(batch_items)
    /\ IF ret'.tag = "Ok"
       THEN UNCHANGED <<pc, total>>
       ELSE /\ pc' = "returned"
            /\ total' = ret'
    /\ UNCHANGED <<preserve_order, input, src, flat, pending, consumed, out, result>>
    /\ UNCHANGED <<codecVars, decoderVars, readerVars>>

\* write_nested_csv, after the last item: the count of the writer.
WriteNestedCsvEnd ==
    /\ pc = "batch"
    /\ batch_items = <<>>
    /\ pc' = "returned"
    /\ total' = Ok(count)
    /\ UNCHANGED <<headers, count, written, served, ret, batch_items>>
    /\ UNCHANGED <<preserve_order, input, src, flat, pending, consumed, out, result>>
    /\ UNCHANGED <<codecVars, decoderVars, readerVars>>

NextWriter ==
    \/ Serialize
    \/ WriteNestedCsvItem
    \/ WriteNestedCsvEnd

SpecWriter == InitWriter /\ [][NextWriter]_vars

-----------------------------------------------------------------------------
(* Claims about NestedCsvWriter.                                           *)

\* The underlying output has taken every record so far.
OutputNeverFailed == \A i \in 1..Len(written) : written[i].ok

\* The calls whose item serde_json::to_value turned into a Value.
Serialized == {i \in 1..Len(served) : served[i] # Unserializable}

\* The first item that was serialized.
FirstSerialized == served[CHOOSE i \in Serialized : \A j \in Serialized : i <= j]

HeaderRows == {i \in 1..Len(written) : written[i].row = "headers"}

\* C18: on an output that does not fail, whatever the calls of serialize,
\* the header row is written once, before every data row; it is the keys of
\* the first item serialized, in the order flattened gives them; and the
\* stored headers are those keys ever after.
C18_HeaderOnceFromFirstItem ==
    OutputNeverFailed =>
        IF Serialized = {}
        THEN headers = None /\ written = <<>>
        ELSE LET keys == [i \in 1..Len(flattened(FirstSerialized)) |->
                              flattened(FirstSerialized)[i].k]
             IN  /\ HeaderRows = {1}
                 /\ written[1].cells = keys
                 /\ headers = Some(keys)

\* Witness of C18: three items went to an output that never failed; the
\* first had its keys in the order "b", "a", and two rows follow the header.
C18_Witness ==
    /\ OutputNeverFailed
    /\ Len(served) = 3
    /\ Len(written) = 3
    /\ preserve_order
    /\ headers = Some(<<sB, sA>>)
    /\ written[1] = HeaderRecord(<<sB, sA>>, TRUE)
    /\ written[2].row = "record"
    /\ written[3].row = "record"

\* The item of the call that has just returned.
LastServed == served[Len(served)]

InSeq(x, s) == \E i \in 1..Len(s) : s[i] = x

\* The entries of the flattened item whose key is no header.
ExtraEntries(item, hs) ==
    {e \in {flattened(item)[i] : i \in 1..Len(flattened(item))} : ~InSeq(e.k, hs)}

\* C19: with the headers established, a call of serialize on an item whose
\* flattened keys include one that is no header returns
\* ExtraValuesComparedToHeaders with exactly the entries under such keys
\* (each once, as a map: their order is not claimed), hands no record to
\* the output and leaves the headers as they were.
C19_ExtraValuesRejected ==
    [][ LET item == served'[Len(served')]
        IN  (/\ headers.tag = "Some"
             /\ item # Unserializable
             /\ ExtraEntries(item, headers.some) # {})
            => /\ ret'.tag = "Err"
               /\ ret'.error.err = "ExtraValuesComparedToHeaders"
               /\ {ret'.error.extra_values[i] : i \in 1..Len(ret'.error.extra_values)}
                     = ExtraEntries(item, headers.some)
               /\ Len(ret'.error.extra_values)
                     = Cardinality(ExtraEntries(item, headers.some))
               /\ written' = written
               /\ headers' = headers ]_vars

\* Witness of C19: after a header and a row for the key "a", an item with
\* the keys "a" and "b" came back with the entry under "b" as extra.
C19_Witness ==
    /\ headers = Some(<<sA>>)
    /\ Len(written) = 2
    /\ Len(served) = 2
    /\ LastServed = Obj(<<Entry(sA, Str(sX)), Entry(sB, Bool(TRUE))>>)
    /\ ret = Err(ExtraValuesComparedToHeaders(<<Entry(sB, Bool(TRUE))>>))

KeySet(m) == {m[i].k : i \in 1..Len(m)}

HeaderSet(hs) == {hs[i] : i \in 1..Len(hs)}

\* C20: after the first item, a call of serialize hands a data row to the
\* output only for an item whose flattened keys are, as a set, the headers;
\* an item that lacks a header gets an error back and no row.
C20_RowOnlyForHeaderKeySet ==
    [][ LET item == served'[Len(served')]
        IN  (/\ headers.tag = "Some"
             /\ item # Unserializable
             /\ KeySet(flattened(item)) # HeaderSet(headers.some))
            => /\ ret'.tag = "Err"
               /\ written' = written ]_vars

\* The text the claims give a flattened scalar in a row.
TextOfScalar(v) ==
    CASE v.kind = "null" -> <<>>
      [] v.kind = "bool" -> IF v.bool THEN <<"t", "r", "u", "e">>
                            ELSE <<"f", "a", "l", "s", "e">>
      [] v.kind = "number" -> Decimal(v.num)
      [] v.kind = "string" -> v.str

\* The call that has just returned handed a data row to the output.
RowHanded ==
    /\ Len(written') > Len(written)
    /\ written'[Len(written')].row = "record"

\* C21: every data row handed to the output by serialize has one field for
\* each header, in the order of the headers, and the field of a header the
\* item has is the text of the item's flattened value under it: nothing for
\* null, the canonical text of a boolean or a number, a string as it is.
C21_RowFollowsHeaders ==
    [][ RowHanded =>
          LET item == served'[Len(served')]
              m == flattened(item)
              cells == written'[Len(written')].cells
              hs == headers'.some
          IN  /\ headers'.tag = "Some"
              /\ Len(cells) = Len(hs)
              /\ \A i \in 1..Len(hs) :
                    HasKey(m, hs[i]) => cells[i] = TextOfScalar(m[KeyIndex(m, hs[i])].v) ]_vars

\* Witness of C21: under the headers "b", "a" the row of {b: 10, a: null}
\* was written as "10" and the empty text.
C21_Witness ==
    /\ headers = Some(<<sB, sA>>)
    /\ Len(served) = 2
    /\ LastServed = Obj(<<Entry(sB, Num(Radix)), Entry(sA, Null)>>)
    /\ written[Len(written)] = DataRecord(<<Decimal(Radix), <<>>>>, TRUE)
    /\ ret = Ok(<<>>)

\* C28: serialize never renders an array or an object into a row: whatever
\* the items and the state of the writer, every value flattened gives for
\* an item is a scalar, and no call ends in the "bad flattening" panic.
C28_NoCompositeCell ==
    /\ ret.tag # "Panic"
    /\ \A n \in Serialized :
          \A i \in 1..Len(flattened(served[n])) : IsScalar(flattened(served[n])[i].v)

\* Witness of C28: an item holding an array was written as a row of the
\* texts of its two elements.
C28_Witness ==
    /\ Len(served) >= 1
    /\ LastServed = Obj(<<Entry(sA, Arr(<<Num(1), Str(sX)>>))>>)
    /\ ret = Ok(<<>>)
    /\ written[Len(written)] = DataRecord(<<Decimal(1), sX>>, TRUE)

\* The data rows the output took.
RowsTaken == {i \in 1..Len(written) : written[i].row = "record" /\ written[i].ok}

-----------------------------------------------------------------------------
(* Further claims about unflattened.                                       *)

\* The key an error of unflattened carries, if it carries one: Other holds
\* one of the fixed messages of make_array and make_object, and
\* UnsupportedTopLevelValue the name of a type.
KeyOfError(e) ==
    IF e.err = "UnsupportedChildValue" THEN Some(e.key) ELSE None

\* The key of the pair the fold pulled last.
LastKey == Arg.map[consumed].k

IsPrefixOf(p, q) == Len(p) <= Len(q) /\ SubSeq(q, 1, Len(p)) = p

\* C24: when unflattened fails because a node already there is not of the
\* kind a segment needs, the error it returns carries the path of the
\* conflict: the key of the pair being applied, or the prefix of it at
\* which the node was met.
C24_KindConflictNamesPath ==
    (Returned /\ IsErr(result, "Other")) =>
        /\ KeyOfError(result.error).tag = "Some"
        /\ IsPrefixOf(SplitPath(KeyOfError(result.error).some), SplitPath(LastKey))

RECURSIVE Lookup(_, _)
\* The node a path of segments addresses in a tree, if there is one.
Lookup(node, p) ==
    IF p = <<>> THEN Some(node)
    ELSE IF p[1].seg = "Idx"
    THEN IF node.kind = "array" /\ p[1].idx < Len(node.arr)
         THEN Lookup(node.arr[p[1].idx + 1], Tail(p))
         ELSE None
    ELSE IF node.kind = "object" /\ HasKey(node.map, p[1].field)
         THEN Lookup(node.map[KeyIndex(node.map, p[1].field)].v, Tail(p))
         ELSE None

RECURSIVE Addresses(_)
\* The paths of all the nodes of a tree.
Addresses(v) ==
    {<<>>} \cup
    IF v.kind = "array"
    THEN UNION {{<<Idx(i - 1)>> \o q : q \in Addresses(v.arr[i])} : i \in 1..Len(v.arr)}
    ELSE IF v.kind = "object"
    THEN UNION {{<<Field(v.map[i].k)>> \o q : q \in Addresses(v.map[i].v)} :
                   i \in 1..Len(v.map)}
    ELSE {}

\* A path that is neither on the way to p nor at or below p.
Outside(q, p) == ~IsPrefixOf(q, p) /\ ~IsPrefixOf(p, q)

\* The fold applies the next pair and apply succeeds.
Applied ==
    /\ pc = "folding"
    /\ pending # <<>>
    /\ Head(pending).tag = "Ok"
    /\ result'.tag = "None"
    /\ consumed' = consumed + 1

\* C25: when unflattened applies a pair (path, scalar) and apply succeeds,
\* the node at that path is the scalar afterwards, whatever was there (no
\* node, Null, a scalar, or a container built by earlier pairs), and every
\* node outside the path is as it was: none changed, none added, none lost.
C25_ApplyAssignsAtPathOnly ==
    [][ Applied =>
          LET p == Head(pending).value.path
              v == Head(pending).value.value
          IN  /\ Lookup(out', p) = Some(v)
              /\ \A q \in Addresses(out) :
                    Outside(q, p) => Lookup(out', q) = Lookup(out, q)
              /\ \A q \in Addresses(out') :
                    Outside(q, p) => q \in Addresses(out) ]_vars

\* Witness of C25: the pair under "a" replaced the object that the pair
\* under "a__k" had built there.
C25_Witness ==
    /\ src = "input"
    /\ pc = "folding"
    /\ consumed = 2
    /\ input.map[1].k = sA \o JOIN_TAG \o sK
    /\ input.map[2] = Entry(sA, Str(sX))
    /\ out = Obj(<<Entry(sA, Str(sX))>>)

\* Pair i of the map unflattened was given is in the tree: the path its key
\* decodes to addresses its value.
PairPresent(m, i, tree) == Lookup(tree, SplitPath(m[i].k)) = Some(m[i].v)

\* C29 (as stated): whenever unflattened(m) succeeds, every pair (k, v) of
\* m is in the result: the node the decoded path of k addresses holds v.
C29_NoPairLost ==
    (Returned /\ result.tag = "Ok" /\ Arg.kind = "object") =>
        \A i \in 1..Len(Arg.map) : PairPresent(Arg.map, i, result.value)

\* C29 (amended): whenever unflattened(m) succeeds, every pair of m whose
\* decoded path is neither a prefix nor an extension of (nor the same as)
\* the decoded path of a pair that comes after it in m is in the result.
C29_NoPairLostUnlessOverwritten ==
    (Returned /\ result.tag = "Ok" /\ Arg.kind = "object") =>
        \A i \in 1..Len(Arg.map) :
            (\A j \in (i + 1)..Len(Arg.map) :
                Outside(SplitPath(Arg.map[i].k), SplitPath(Arg.map[j].k)))
            => PairPresent(Arg.map, i, result.value)

\* Witness of C29: two pairs under the same array, both in the result.
C29_Witness ==
    /\ Returned
    /\ src = "input"
    /\ result.tag = "Ok"
    /\ Len(input.map) = 2
    /\ input.map[1] = Entry(sA \o JOIN_TAG \o ARR_PFX \o <<"0">>, Null)
    /\ input.map[2] = Entry(sA \o JOIN_TAG \o ARR_PFX \o <<"1">>, Str(sX))
    /\ result.value = Obj(<<Entry(sA, Arr(<<Null, Str(sX)>>))>>)

-----------------------------------------------------------------------------
(* FlatMapDeserializer: the decoder over a Map with '.' between the        *)
(* segments and bare decimal indices, which wants its keys sorted.         *)

Dot == <<".">>

\* DeserializeError { field, kind }
DeserializeError(field, kind) == [err |-> kind, field |-> field]
UnsortedKeys == DeserializeError(None, "UnsortedKeys")
InvalidArrayIndex(k) == DeserializeError(Some(k), "InvalidArrayIndex")
\* SerdeError::custom, which the visitors use to refuse a value
Message(msg) == [err |-> "Message", field |-> None, msg |-> msg]

\* full_keys: the keys that start with the prefix and have '.' right after
\* it, in the order of the map. k.as_bytes()[self.prefix.len()] is out of
\* bounds, a panic, on a key that is the prefix itself.
full_keys(d, p) ==
    LET starts == {i \in 1..Len(d) : StartsWith(d[i].k, p)}
        keep == {i \in starts : p = <<>> \/ (Len(d[i].k) > Len(p) /\ d[i].k[Len(p) + 1] = ".")}
        F[i \in 0..Len(d)] ==
            IF i = 0 THEN <<>>
            ELSE IF i \in keep THEN Append(F[i - 1], d[i].k) ELSE F[i - 1]
    IN  [panic |-> p # <<>> /\ \E i \in starts : Len(d[i].k) = Len(p),
         keys |-> F[Len(d)]]

\* keys == sorted, for the bytewise order of Strings
StrSorted(keys) ==
    \A i \in 1..(Len(keys) - 1) : keys[i] = keys[i + 1] \/ StrLess(keys[i], keys[i + 1])

\* check_sorted
check_sorted(d, p) ==
    LET full == full_keys(d, p)
    IN  IF full.panic THEN Panic(<<"index out of bounds">>)
        ELSE IF ~StrSorted(full.keys) THEN Err(UnsortedKeys)
        ELSE Ok(<<>>)

\* seg.split('.').next(): the text before the first '.'
first_seg(t) ==
    LET dots == {i \in 1..Len(t) : t[i] = "."}
    IN  IF dots = {} THEN t
        ELSE SubSeq(t, 1, (CHOOSE i \in dots : \A j \in dots : i <= j) - 1)

\* The first segment of a key below the prefix.
child_seg(k, p) ==
    first_seg(SubSeq(k, Len(p) + (IF p = <<>> THEN 0 ELSE 1) + 1, Len(k)))

RECURSIVE scan_indices(_, _, _, _)
\* The loop of max_array_index over the keys: the indices in the order of
\* the keys and the greatest of them, or the first key whose first segment
\* does not parse as usize.
scan_indices(keys, p, found, max) ==
    IF keys = <<>> THEN Ok([indices |-> found, max |-> max])
    ELSE LET i == parse_usize(child_seg(Head(keys), p))
         IN  IF i.tag = "None" THEN Err(InvalidArrayIndex(Head(keys)))
             ELSE scan_indices(Tail(keys), p, Append(found, i.some),
                               IF i.some > max THEN i.some ELSE max)

\* max_array_index
max_array_index(d, p) ==
    LET full == full_keys(d, p)
        scan == scan_indices(full.keys, p, <<>>, 0)
    IN  IF full.panic THEN Panic(<<"index out of bounds">>)
        ELSE IF scan.tag = "Err" THEN scan
        ELSE IF \E i \in 1..(Len(scan.value.indices) - 1) :
                    scan.value.indices[i] > scan.value.indices[i + 1]
        THEN Err(UnsortedKeys)
        ELSE Ok(scan.value.max)

\* What the visitor of a scalar target does with the value
\* infer_deserialize hands it: bool takes visit_bool, String takes
\* visit_borrowed_str, () takes visit_unit, and anything else is refused
\* as an invalid type.
visit_inferred(kind, v) ==
    CASE kind = "bool" /\ v.ty = "bool" -> Ok(v)
      [] kind = "string" /\ v.ty = "str" -> Ok(v)
      [] kind = "unit" /\ v.ty = "unit" -> Ok(v)
      [] OTHER -> Err(Message(<<"invalid type", kind, v.ty>>))

RECURSIVE FlatMap_deserialize(_, _, _)
\* T::deserialize(&mut FlatMapDeserializer) for the element types of the
\* model: deserialize_option looks for a value at the prefix; every scalar
\* method is infer_deserialize.
FlatMap_deserialize(d, p, t) ==
    IF t.ty = "option"
    THEN IF get_value(d, p).tag = "Some"
         THEN LET r == FlatMap_deserialize(d, p, t.wrapped)
              IN  IF r.tag = "Ok" THEN Ok(VSome(r.value)) ELSE r
         ELSE Ok(VNone)
    ELSE LET r == infer_deserialize(get_value(d, p))
         IN  IF r.tag = "Ok" THEN visit_inferred(t.ty, r.value) ELSE r

\* The prefix of element i of a sequence.
sub_prefix(p, i) == IF p = <<>> THEN Decimal(i) ELSE p \o Dot \o Decimal(i)

RECURSIVE FlatSeqAccess_visit(_, _, _, _, _, _)
\* Vec<T>'s visit_seq on FlatSeqAccess: next_element_seed until it gives
\* None or an error. While max_index is 0 every call asks max_array_index
\* again; the element at current_index is decoded whether or not the map
\* has an entry for it.
FlatSeqAccess_visit(d, p, t, current_index, max_index, acc) ==
    LET asked == IF max_index = 0 THEN max_array_index(d, p) ELSE Ok(max_index)
    IN  IF asked.tag # "Ok" THEN asked
        ELSE IF current_index > asked.value THEN Ok(VSeq(acc))
        ELSE LET r == FlatMap_deserialize(d, sub_prefix(p, current_index), t)
             IN  IF r.tag # "Ok" THEN r
                 ELSE FlatSeqAccess_visit(d, p, t, current_index + 1, asked.value,
                                          Append(acc, r.value))

\* FlatMapDeserializer::deserialize_seq into a Vec of elements of type t
deserialize_seq(d, p, t) ==
    LET sorted == check_sorted(d, p)
    IN  IF sorted.tag # "Ok" THEN sorted
        ELSE FlatSeqAccess_visit(d, p, t, 0, 0, <<>>)

\* Keys of the maps given to FlatMapDeserializer: elements of a sequence
\* under "a" and at the root, a token that is no index, the prefix itself
\* and a key that only starts like the prefix.
DotKeys ==
    {sA \o Dot \o Decimal(0), sA \o Dot \o Decimal(1), sA \o Dot \o Decimal(2),
     sA \o Dot \o sX, sA, sA \o sB \o Dot \o Decimal(0),
     Decimal(0), Decimal(1)}

\* The entries "a.0" .. "a.(n-1)", in the order of their indices.
DotArr(n, text) == [i \in 1..n |-> Entry(sA \o Dot \o Decimal(i - 1), text)]

\* The pairs a Map is collected from: up to MaxEntries keys in any order,
\* all with the same text, and sequences of ten and of eleven elements.
DotPairs ==
    {[i \in 1..Len(ks) |-> Entry(ks[i], text)] :
        ks \in {s \in SeqsUpTo(DotKeys, MaxEntries + 1) :
                  \A i, j \in 1..Len(s) : i # j => s[i] # s[j]},
        text \in {sTrue, sX}}
    \cup {DotArr(n, sTrue) : n \in {Radix, Radix + 1}}

\* Element types of the sequences decoded: bool, String, () and Option<bool>.
ElemShapes == {TScalar("bool"), TScalar("string"), TScalar("unit"), TOption(TScalar("bool"))}

\* The Map collected from pairs of distinct keys: in the order of insertion,
\* or sorted by key.
CollectDistinct(pairs) ==
    IF preserve_order THEN pairs
    ELSE [r \in 1..Len(pairs) |->
            pairs[CHOOSE i \in 1..Len(pairs) :
                    Cardinality({j \in 1..Len(pairs) : StrLess(pairs[j].k, pairs[i].k)}) = r - 1]]

\* A Map collected from the pairs, in the order of the build, and a
\* FlatMapDeserializer on it at the root or at "a", asked for a Vec.
InitSorted ==
    /\ preserve_order \in BOOLEAN
    /\ input = Null
    /\ src = "none"
    /\ flat = <<>>
    /\ pending = <<>>
    /\ consumed = 0
    /\ out = Null
    /\ result = NoResult
    /\ CodecIdle
    /\ WriterIdle
    /\ ReaderIdle
    /\ pc = "sorted"
    /\ \E pairs \in DotPairs : data = CollectDistinct(pairs)
    /\ de_prefix \in {<<>>, sA}
    /\ shape \in {TSeq(t) : t \in ElemShapes}
    /\ indices = <<>>
    /\ fields = <<>>
    /\ current_field = None
    /\ visited = <<>>
    /\ decoded = NoResult

\* Vec::<T>::deserialize(&mut FlatMapDeserializer::new(&map, prefix))
FlatDeserializeSeq ==
    /\ pc = "sorted"
    /\ decoded' = deserialize_seq(data, de_prefix, shape.elem)
    /\ pc' = "decoded"
    /\ UNCHANGED <<data, de_prefix, shape, indices, fields, current_field, visited>>
    /\ UNCHANGED <<treeVars, codecVars, writerVars, readerVars>>

NextSorted == FlatDeserializeSeq

SpecSorted == InitSorted /\ [][NextSorted]_vars

\* The keys of the map below the prefix, in the order of the map: all of
\* them at the root, those that start with the prefix and '.' elsewhere.
KeysBelow(d, p) ==
    LET below == {i \in 1..Len(d) : p = <<>> \/ StartsWith(d[i].k, p \o Dot)}
        F[i \in 0..Len(d)] ==
            IF i = 0 THEN <<>>
            ELSE IF i \in below THEN Append(F[i - 1], d[i].k) ELSE F[i - 1]
    IN  F[Len(d)]

\* The direct child tokens below the prefix, in the order of the map.
TokensBelow(d, p) ==
    [i \in 1..Len(KeysBelow(d, p)) |-> child_seg(KeysBelow(d, p)[i], p)]

\* The tokens are the decimal indices 0, 1, .. max, in this order.
ZeroToMax(tokens) ==
    /\ tokens # <<>>
    /\ \A i \in 1..Len(tokens) : tokens[i] = Decimal(i - 1)

\* A sequence of bool was asked for and every entry of the map is a direct
\* child with the text "true", so that no element fails on its own.
SeqOfBoolDecoded ==
    /\ pc = "decoded"
    /\ shape = TSeq(TScalar("bool"))
    /\ KeysBelow(data, de_prefix) # <<>>
    /\ \A i \in 1..Len(data) : data[i].v = sTrue
    /\ \A i \in 1..Len(KeysBelow(data, de_prefix)) :
          KeysBelow(data, de_prefix)[i]
             = (IF de_prefix = <<>> THEN <<>> ELSE de_prefix \o Dot)
               \o TokensBelow(data, de_prefix)[i]

\* C27: FlatMapDeserializer accepts a sequence exactly when the direct
\* child indices below its prefix are 0, 1, .. max in ascending order with
\* no gap, whatever max is; otherwise decoding fails, with UnsortedKeys
\* when the indices are out of order, with InvalidArrayIndex when a child
\* token is no decimal index (the keys being in order), and with some
\* error when an index up to max has no entry.
C27_SeqAcceptedIffZeroToMax ==
    SeqOfBoolDecoded =>
        LET tokens == TokensBelow(data, de_prefix)
            allDecimal == \A i \in 1..Len(tokens) : AllDigits(tokens[i])
        IN  /\ ZeroToMax(tokens) <=>
                  (decoded.tag = "Ok" /\ Len(decoded.value.items) = Len(tokens))
            /\ ~ZeroToMax(tokens) => decoded.tag = "Err"
            /\ (/\ allDecimal
                /\ \E i \in 1..(Len(tokens) - 1) :
                      NumberOf(tokens[i]) > NumberOf(tokens[i + 1]))
                  => IsErr(decoded, "UnsortedKeys")
            /\ (~allDecimal /\ StrSorted(KeysBelow(data, de_prefix)))
                  => IsErr(decoded, "InvalidArrayIndex")

-----------------------------------------------------------------------------
(* NestedCsvReader: a record is paired with the headers, unflattened and   *)
(* turned into T by serde_json::from_value.                                *)

\* Largest number of data records of an input.
MaxRows == 2

\* .map_err(Error::Other) on what ValueBuilder::apply returns; a panic
\* unwinds.
applied(r) ==
    CASE r.st = "ok" -> Ok(r.node)
      [] r.st = "err" -> Err(Other(r.msg))
      [] r.st = "panic" -> Panic(r.msg)

\* The closure of the try_fold of unflattened: an item that is an error ends
\* the fold, a pair is applied to the tree built so far.
fold_item(acc, item) ==
    IF acc.tag # "Ok" THEN acc
    ELSE IF item.tag = "Err" THEN item
    ELSE applied(apply(acc.value, item.value.path, item.value.value))

\* try_fold from Value::Null over the items: folded[i] is the fold after i
\* items.
try_fold(pairs) ==
    LET folded[i \in 0..Len(pairs)] ==
            IF i = 0 THEN Ok(Null) ELSE fold_item(folded[i - 1], pairs[i])
    IN  folded[Len(pairs)]

\* unflattened(value)
unflattened(value) == try_fold(unflatten_iter(value))

\* A struct with derived Deserialize: its fields in the order declared.
TStruct(members) == [ty |-> "struct", members |-> members]
Member(name, t) == [name |-> name, t |-> t]
\* The value of a struct: a value for each field.
VStruct(values) == [ty |-> "struct", values |-> values]

\* serde_json::Error, by what it says
JsonError(msg) == [err |-> "serde_json", msg |-> msg]

RECURSIVE from_value(_, _)
\* serde_json::from_value::<T>(v) for the types of the model. The Value is
\* the Deserializer: bool takes a Bool, i32 a Number, String a String, each
\* of them nothing else; a struct takes an Object, every field of its own
\* by name and keys it does not know ignored, or an Array of its fields in
\* order. The first failure in the order of the map is the error, and a
\* missing field after that.
from_value(t, v) ==
    CASE t.ty = "bool" ->
            IF v.kind = "bool" THEN Ok(VBool(v.bool))
            ELSE Err(JsonError(<<"invalid type">>))
      [] t.ty = "i32" ->
            IF v.kind = "number" THEN Ok(VInt("i32", v.num))
            ELSE Err(JsonError(<<"invalid type">>))
      [] t.ty = "string" ->
            IF v.kind = "string" THEN Ok(VStr(v.str))
            ELSE Err(JsonError(<<"invalid type">>))
      [] t.ty = "struct" ->
            IF v.kind = "object"
            THEN LET names == {t.members[i].name : i \in 1..Len(t.members)}
                     typeOf(k) == t.members[CHOOSE i \in 1..Len(t.members) :
                                                t.members[i].name = k].t
                     failing == {i \in 1..Len(v.map) :
                                    /\ v.map[i].k \in names
                                    /\ from_value(typeOf(v.map[i].k), v.map[i].v).tag = "Err"}
                     missing == {i \in 1..Len(t.members) : ~HasKey(v.map, t.members[i].name)}
                 IN  IF failing # {}
                     THEN LET i == CHOOSE i \in failing : \A j \in failing : i <= j
                          IN  from_value(typeOf(v.map[i].k), v.map[i].v)
                     ELSE IF missing # {} THEN Err(JsonError(<<"missing field">>))
                     ELSE Ok(VStruct([i \in 1..Len(t.members) |->
                             from_value(t.members[i].t,
                                        v.map[KeyIndex(v.map, t.members[i].name)].v).value]))
            ELSE IF v.kind = "array"
            THEN IF Len(v.arr) # Len(t.members) THEN Err(JsonError(<<"invalid length">>))
                 ELSE LET got == [i \in 1..Len(v.arr) |-> from_value(t.members[i].t, v.arr[i])]
                      IN  IF \E i \in 1..Len(got) : got[i].tag = "Err"
                          THEN got[CHOOSE i \in 1..Len(got) :
                                      got[i].tag = "Err" /\ \A j \in 1..(i - 1) : got[j].tag = "Ok"]
                          ELSE Ok(VStruct([i \in 1..Len(got) |-> got[i].value]))
            ELSE Err(JsonError(<<"invalid type">>))

\* <Flattened<T> as Deserialize>::deserialize(value) on a serde_json::Value:
\* the Value itself, unflattened, then from_value::<T>; an error of either
\* becomes a custom error with its context. A panic of unflattened unwinds.
map_err_custom(got, msg) ==
    IF got.tag = "Err" THEN Err(JsonError(msg)) ELSE got

\* The second half of Flattened::deserialize: from_value::<T> of the tree.
from_unflattened(t, tree) ==
    IF tree.tag = "Ok" THEN map_err_custom(from_value(t, tree.value), <<"converting to">>)
    ELSE tree

Flattened_deserialize(t, value) ==
    from_unflattened(t, map_err_custom(unflattened(value), <<"unflattening value">>))

\* nested_csv::read::Error
ReadingRecord == [err |-> "ReadingRecord"]
DeserializingFlattenedJson(value) == [err |-> "DeserializingFlattenedJson", value |-> value]
Reader_MissingField(idx, field, record) ==
    [err |-> "MissingField", idx |-> idx, field |-> field, record |-> record]

\* The serde_json::Map collected from the headers and the cells.
row_value(rec) ==
    Obj(MapCollect(<<>>, [i \in 1..Len(reader_headers) |->
                            Entry(reader_headers[i], Str(rec[i]))]))

\* Flattened::<T>::deserialize of the map; its error is
\* DeserializingFlattenedJson with the map.
decode_record(value) ==
    IF Flattened_deserialize(target, value).tag = "Err"
    THEN Err(DeserializingFlattenedJson(value))
    ELSE Flattened_deserialize(target, value)

\* The closure of deserialize on the record read_record has read: a reader
\* that is not flexible refuses a record that is not as long as the
\* headers (UnequalLengths); the first header without a cell is
\* MissingField; else the headers and the cells, each a Value::String, are
\* collected into a Map and decoded as Flattened<T>.
read_row(rec) ==
    IF ~flexible /\ Len(rec) # Len(reader_headers) THEN Err(ReadingRecord)
    ELSE IF Len(rec) < Len(reader_headers)
    THEN Err(Reader_MissingField(Len(rec), reader_headers[Len(rec) + 1], reader_count))
    ELSE decode_record(row_value(rec))

\* struct Inner { b: bool, k: i32 }  struct Outer { a: Inner, x: String }:
\* a nested type with a bool, an integer and a String leaf, as Parent and
\* Outer of the tests.
Outer ==
    TStruct(<<Member(sA, TStruct(<<Member(sB, TScalar("bool")),
                                  Member(sK, TScalar("i32"))>>)),
              Member(sX, TScalar("string"))>>)

\* struct Texts { a: String, b: String }
Texts == TStruct(<<Member(sA, TScalar("string")), Member(sB, TScalar("string"))>>)

\* struct Text { a: String }
Text == TStruct(<<Member(sA, TScalar("string"))>>)

\* What serde_json::to_value gives for the values of a type.
ValuesOf(t) ==
    IF t = Outer
    THEN {Obj(<<Entry(sA, Obj(<<Entry(sB, Bool(b)), Entry(sK, Num(n))>>)), Entry(sX, Str(s))>>) :
             b \in BOOLEAN, n \in {1, Radix}, s \in {sX, Decimal(Radix)}}
    ELSE IF t = Texts
    THEN {Obj(<<Entry(sA, Str(s1)), Entry(sB, Str(s2))>>) :
             s1 \in {sX, Decimal(Radix)}, s2 \in {sX, sTrue}}
    ELSE {Obj(<<Entry(sA, Str(s))>>) : s \in {sX, Decimal(Radix), sTrue}}

\* The headers NestedCsvWriter writes for the items: the keys of the first.
WrittenHeaders(its) ==
    CHOOSE hs \in {item_keys(f) : f \in {flattened(its[1])}} : TRUE

\* The data records NestedCsvWriter writes for the items, one each, on an
\* output that takes them all.
WrittenRows(its) ==
    [i \in 1..Len(its) |->
        CHOOSE r \in {take_row(hs, f, <<>>).cells.some :
                         hs \in {WrittenHeaders(its)}, f \in {flattened(its[i])}} : TRUE]

\* Headers of the inputs that no writer of the model wrote: one and two
\* columns, a column below another, and an index with none before it.
RawHeaders ==
    {<<sA>>, <<sA, sB>>, <<sA, sA \o JOIN_TAG \o sK>>, <<sA \o JOIN_TAG \o ARR_PFX \o Decimal(1)>>}

\* Records of one to three cells.
RawRecords == SeqsUpTo({sX, sTrue}, 3)

\* A reader fresh from NestedCsvReader::new on an input with headers: the
\* input is what NestedCsvWriter wrote for items of T (served holds them),
\* or headers and records of any length.
InitReader ==
    /\ preserve_order \in BOOLEAN
    /\ input = Null
    /\ src = "none"
    /\ flat = <<>>
    /\ pending = <<>>
    /\ consumed = 0
    /\ out = Null
    /\ result = NoResult
    /\ CodecIdle
    /\ DecoderIdle
    /\ headers = None
    /\ count = 0
    /\ written = <<>>
    /\ ret = NoResult
    /\ batch_items = <<>>
    /\ total = NoResult
    /\ pc = "reading"
    /\ flexible \in BOOLEAN
    /\ target \in {Outer, Texts, Text}
    /\ \/ /\ served \in SeqsUpTo(ValuesOf(target), MaxRows)
          /\ reader_headers = WrittenHeaders(served)
          /\ input_rows = WrittenRows(served)
       \/ /\ served = <<>>
          /\ target # Outer
          /\ reader_headers \in RawHeaders
          /\ input_rows \in {<<>>} \cup SeqsUpTo(RawRecords, MaxRows)
    /\ reader_count = 0
    /\ yielded = <<>>

\* next() on the iterator of deserialize, with a record left to read: the
\* record is read and what the closure makes of it is yielded; the count
\* goes up when that is Ok. A panic unwinds out of next().
ReaderNext ==
    /\ pc = "reading"
    /\ input_rows # <<>>
    /\ LET got == read_row(Head(input_rows))
       IN  /\ input_rows' = Tail(input_rows)
           /\ yielded' = Append(yielded, got)
           /\ reader_count' = IF got.tag = "Ok" THEN reader_count + 1 ELSE reader_count
           /\ pc' = IF got.tag = "Panic" THEN "panicked" ELSE "reading"
    /\ UNCHANGED <<flexible, target, reader_headers>>
    /\ UNCHANGED <<treeVars, codecVars, decoderVars, writerVars>>

\* next() with no record left: read_record gives false and the iterator
\* gives None.
ReaderEnd ==
    /\ pc = "reading"
    /\ input_rows = <<>>
    /\ pc' = "ended"
    /\ UNCHANGED readerVars
    /\ UNCHANGED <<treeVars, codecVars, decoderVars, writerVars>>

NextReader ==
    \/ ReaderNext
    \/ ReaderEnd

SpecReader == InitReader /\ [][NextReader]_vars

------------------------------------------------------------------------------
(* Claims about NestedCsvReader.                                           *)

\* The input of the reader is what NestedCsvWriter wrote for items.
WrittenInput == served # <<>>

\* C22: items of a nested struct type with bool, integer and string leaves
\* (numeric-looking strings among them), written by NestedCsvWriter and read
\* back by NestedCsvReader, all decode without error, one item decoded per
\* item written.
C22_RoundTripDecodesEveryItem ==
    (pc = "ended" /\ WrittenInput) =>
        /\ Len(yielded) = Len(served)
        /\ \A i \in 1..Len(yielded) : yielded[i].tag = "Ok"

\* The record the next call of the iterator reads is shorter than the
\* headers.
ShortRecordNext ==
    /\ pc = "reading"
    /\ input_rows # <<>>
    /\ Len(Head(input_rows)) < Len(reader_headers)

\* C23: for a data row with fewer fields than the header row the iterator
\* yields MissingField; its idx is the first header position without a
\* value in the row, its field the header at that position, and its record
\* the zero-based number of the row in the input.
C23_MissingFieldNamesPositionAndRow ==
    [][ShortRecordNext =>
          yielded' = Append(yielded,
                            Err(Reader_MissingField(Len(Head(input_rows)),
                                                    reader_headers[Len(Head(input_rows)) + 1],
                                                    Len(yielded))))]_vars

\* C26: the iterator yields one item per data row in row order, Ok or Err,
\* goes on with the following rows after an Err, and ends only when the
\* input has no more rows.
C26_OneItemPerRowUntilInputEnds ==
    /\ [](pc # "reading" => input_rows = <<>>)
    /\ [][(pc = "reading" /\ input_rows # <<>>) =>
            /\ Len(yielded') = Len(yielded) + 1
            /\ yielded'[Len(yielded')].tag \in {"Ok", "Err"}
            /\ input_rows' = Tail(input_rows)
            /\ pc' = "reading"]_vars

====
